---- MODULE Spec2Model ----
(***************************************************************************)
(* Trading engine of the Polymarket bot: risk gate (RiskManager), intent   *)
(* queue and worker (OrderManager), position lifecycle (PositionManager)   *)
(* and the SQLite store (Database), as wired by TradingBot.                *)
(*                                                                         *)
(* Units.  Prices are in cents (0.40 -> 40).  Intent sizes are whole       *)
(* dollars.  Profit, loss and portfolio value are in 1/10000 dollar, so    *)
(* that the fee rates 0.0315 and 0.02 stay exact.  Percent comparisons are *)
(* cross-multiplied instead of divided, so no rounding enters the model.   *)
(***************************************************************************)
EXTENDS Integers, Sequences, FiniteSets, TLC

\* ---------------------------------------------------------------- bounds
\* Number of strategy evaluation cycles that emit intents.
MaxEmits == 1
\* Capacity of the intent queue in the model (the code's is
\* MAX_SIGNAL_QUEUE_SIZE = 100, order_manager.py:26).
QueueCap == 2

\* ------------------------------------------------------- program constants
MAX_EXIT_RETRIES == 3
EXIT_RETRY_BACKOFF_BASE == 2
max_position_pct == 15
max_open_positions == 10
min_edge_pct == 5
min_cash_reserve_pct == 10
daily_loss_limit_pct == 10
min_position_size_usd == 5
stop_loss_pct == 25
trailing_stop_pct == 10
\* TAKER_FEE_RATE = 0.0315 and WINNER_FEE_RATE = 0.02, per 10000.
TAKER_FEE_RATE == 315
WINNER_FEE_RATE == 200
\* What the mocked wallet of the test configuration holds.
WalletBalance == 500
\* Outcome of a wallet read that raises.
WalletError == -1

\* get_take_profit_tiers(): the configured take-profit ladder.
get_take_profit_tiers ==
  << [gain_pct |-> 50, sell_pct |-> 50], [gain_pct |-> 100, sell_pct |-> 100] >>

\* get_strategy_allocation(name): allocation_pct of a configured strategy,
\* 0 for a strategy the configuration does not name.
get_strategy_allocation(name) ==
  IF name = "copy_trader" THEN 40
  ELSE IF name = "arb_scanner" THEN 20
  ELSE 0

\* ------------------------------------------------------------ the market
Markets == {"m1", "m2"}
Tokens == {"y1", "n1", "y2"}
MarketOf(t) == IF t = "y2" THEN "m2" ELSE "m1"
\* Prices the stream delivers, in cents.
Prices == {30, 80}
\* What a wallet read can produce.
WalletReads == {WalletError, WalletBalance}

\* ---------------------------------------------------------------- intents
\* Signal (order_manager.py:33-52).  The metadata keys the engine reads are
\* fields of the record; position_id = 0, arb_leg = 0, edge_pct = -1,
\* yes_token_id = "" and has_pnl = FALSE stand for an absent key.  approved is history: whether a
\* risk approve_signal call has returned approved for this intent.
Signal(strategy, market_id, token_id, side, price, size, order_type) ==
  [strategy |-> strategy, market_id |-> market_id, token_id |-> token_id,
   side |-> side, price |-> price, size |-> size, order_type |-> order_type,
   is_exit |-> FALSE, position_id |-> 0, has_pnl |-> FALSE, realized_pnl |-> 0,
   arb_leg |-> 0, arb_rollback_token_id |-> "", arb_rollback_price |-> 0,
   arb_rollback_size_usd |-> 0, edge_pct |-> -1, yes_token_id |-> "",
   source_wallet |-> "", approved |-> FALSE]

NoSignal == Signal("", "", "", "", 0, 0, "")

\* A mirror-strategy entry: BUY of token t at 0.40 for $20 with an edge
\* estimate (copy_trader emits GTC entries with edge_pct in the metadata).
YesTokenOf(m) == IF m = "m2" THEN "y2" ELSE "y1"
CopySignal(t) ==
  [Signal("copy_trader", MarketOf(t), t, "BUY", 40, 20, "GTC") EXCEPT
     !.edge_pct = 8, !.yes_token_id = YesTokenOf(MarketOf(t)),
     !.source_wallet = "w1"]

\* ArbScanner._create_arb_signals: two FOK BUY legs on the two tokens of one
\* market, $20 each; leg 2 carries the rollback data of leg 1.
ArbLeg1 ==
  [Signal("arb_scanner", "m1", "y1", "BUY", 40, 20, "FOK") EXCEPT !.arb_leg = 1]
ArbLeg2 ==
  [Signal("arb_scanner", "m1", "n1", "BUY", 50, 20, "FOK") EXCEPT
     !.arb_leg = 2, !.arb_rollback_token_id = "y1",
     !.arb_rollback_price = 40, !.arb_rollback_size_usd = 20]
create_arb_signals == << ArbLeg1, ArbLeg2 >>

\* ------------------------------------------------------------------ store
\* Database: view is what the connection reads (uncommitted writes
\* included), durable is what is committed to the file.  A position's id is
\* its index in positions (AUTOINCREMENT from 1).  meta is the value of the
\* kill-switch key in bot_metadata, "none" while the key has no row.
EmptyTables == [trades |-> {}, positions |-> << >>, meta |-> "none"]
EmptyDb == [view |-> EmptyTables, durable |-> EmptyTables, in_transaction |-> FALSE]

\* A _commit that commits inside an explicit transaction as well.
commit_always(d) == [d EXCEPT !.durable = d.view]

\* Database._commit: commit unless inside an explicit transaction.
Commit(d) == IF d.in_transaction THEN d ELSE [d EXCEPT !.durable = d.view]

\* Database.transaction, entry: BEGIN IMMEDIATE.
Begin(d) == [d EXCEPT !.in_transaction = TRUE]
\* Database.transaction, normal exit: COMMIT.
CommitTransaction(d) == [d EXCEPT !.durable = d.view, !.in_transaction = FALSE]
\* Database.transaction, error exit: ROLLBACK.
RollbackTransaction(d) == [d EXCEPT !.view = d.durable, !.in_transaction = FALSE]

\* The trades row an INSERT of record_trade's arguments makes: id is the
\* AUTOINCREMENT key (rows are never deleted, so it is the row count + 1).
trade_row(d, order_id, s) ==
  [id |-> Cardinality(d.view.trades) + 1,
   order_id |-> order_id, strategy |-> s.strategy,
   market_id |-> s.market_id, token_id |-> s.token_id,
   side |-> s.side, price |-> s.price, size |-> s.size]

\* A record_trade that uses INSERT OR REPLACE: the row of the same order id
\* is deleted and a new one inserted.
record_trade_replace(d, order_id, s) ==
  LET kept == {r \in d.view.trades : r.order_id # order_id}
  IN Commit([d EXCEPT !.view.trades = kept \cup {trade_row(d, order_id, s)}])

\* Database.record_trade: INSERT OR IGNORE on the unique order id.
record_trade(d, order_id, s) ==
  LET dup == \E r \in d.view.trades : r.order_id = order_id
  IN Commit(IF dup THEN d
            ELSE [d EXCEPT !.view.trades = @ \cup {trade_row(d, order_id, s)}])

\* Database.record_trade, the value it returns: cursor.lastrowid when the
\* INSERT added a row; when rowcount is 0, the id that SELECT finds for the
\* order id in the table after the statement (-1 when it finds none).
record_trade_returns(before, after, order_id) ==
  IF Cardinality(after.view.trades) > Cardinality(before.view.trades)
  THEN Cardinality(after.view.trades)
  ELSE LET found == {r \in after.view.trades : r.order_id = order_id}
       IN IF found = {} THEN -1 ELSE (CHOOSE r \in found : TRUE).id

\* Database.open_position: a new row with status open, tier counter 0,
\* current price = entry price, no trailing stop (0 stands for NULL).
open_position(d, s) ==
  LET row == [market_id |-> s.market_id, token_id |-> s.token_id,
              strategy |-> s.strategy, side |-> s.side,
              entry_price |-> s.price, size |-> s.size,
              current_price |-> s.price, unrealized_pnl |-> 0,
              realized_pnl |-> 0, status |-> "open",
              take_profit_triggered |-> 0, trailing_stop_price |-> 0,
              close_reason |-> "", yes_token_id |-> s.yes_token_id,
              source_wallet |-> s.source_wallet]
  IN Commit([d EXCEPT !.view.positions = Append(@, row)])

\* A set_position_closing that leaves the status as it is.
set_position_closing_noop(d, id, reason) == Commit(d)

\* Database.set_position_closing: open -> closing only.
set_position_closing(d, id, reason) ==
  Commit(IF d.view.positions[id].status = "open"
         THEN [d EXCEPT !.view.positions[id].status = "closing",
                        !.view.positions[id].close_reason = reason]
         ELSE d)

\* Database.close_position: open or closing -> closed.
close_position(d, id, pnl, reason) ==
  Commit(IF d.view.positions[id].status \in {"open", "closing"}
         THEN [d EXCEPT !.view.positions[id].status = "closed",
                        !.view.positions[id].realized_pnl = pnl,
                        !.view.positions[id].close_reason = reason]
         ELSE d)

\* Database.update_position_price: current price and unrealized P&L.
update_position_price(d, id, price) ==
  LET p == d.view.positions[id]
      pnl == IF p.side = "BUY" THEN (price - p.entry_price) * p.size * 100
             ELSE (p.entry_price - price) * p.size * 100
  IN Commit([d EXCEPT !.view.positions[id].current_price = price,
                      !.view.positions[id].unrealized_pnl = pnl])

\* Database.update_position_trailing_stop.
update_position_trailing_stop(d, id, price) ==
  Commit([d EXCEPT !.view.positions[id].trailing_stop_price = price])

\* Database.update_position_partial_close.
update_position_partial_close(d, id, remaining, tier) ==
  Commit([d EXCEPT !.view.positions[id].size = remaining,
                   !.view.positions[id].take_profit_triggered = tier])

\* Database.get_open_positions: ids of the open and closing rows.
get_open_positions(d) ==
  {i \in 1..Len(d.view.positions) : d.view.positions[i].status \in {"open", "closing"}}

\* Database.count_open_positions.
count_open_positions(d) == Cardinality(get_open_positions(d))

\* Database.set_metadata / get_metadata on the kill-switch key.
set_metadata(d, value) == Commit([d EXCEPT !.view.meta = value])
get_metadata(d) == d.view.meta

RECURSIVE SumF(_, _)
\* Sum of f[i] over i in S (Python's sum over a list of rows).
SumF(S, f) ==
  IF S = {} THEN 0
  ELSE LET i == CHOOSE x \in S : TRUE
       IN f[i] + SumF(S \ {i}, f)

\* Database.get_today_realized_pnl: realized P&L of the closed rows (every
\* close of a run falls on the same UTC day).
get_today_realized_pnl(d) ==
  LET closed == {i \in 1..Len(d.view.positions) : d.view.positions[i].status = "closed"}
  IN SumF(closed, [i \in closed |-> d.view.positions[i].realized_pnl])

\* ------------------------------------------------------------ risk manager
\* RiskManager._get_portfolio_value, in 1/10000 dollar: wallet balance (0 when
\* the read raises) plus current price x size over the live positions.
get_portfolio_value(d, usdc) ==
  LET live == get_open_positions(d)
      value == SumF(live, [i \in live |->
                 d.view.positions[i].current_price * d.view.positions[i].size * 100])
  IN (IF usdc = WalletError THEN 0 ELSE usdc * 10000) + value

\* RiskManager._get_total_unrealized_pnl.
get_total_unrealized_pnl(d) ==
  LET live == get_open_positions(d)
  IN SumF(live, [i \in live |-> d.view.positions[i].unrealized_pnl])

\* RiskManager._get_strategy_exposure: entry price x size over the live
\* positions of one strategy, in 1/10000 dollar.
get_strategy_exposure(d, strategy) ==
  LET mine == {i \in get_open_positions(d) : d.view.positions[i].strategy = strategy}
  IN SumF(mine, [i \in mine |->
       d.view.positions[i].entry_price * d.view.positions[i].size * 100])

Verdict(ok, reason, halt) == [approved |-> ok, reason |-> reason, daily_loss_halt |-> halt]

\* RiskManager.approve_signal after its kill-switch check: the checks from
\* "trading halted" to "minimum edge", first failure wins.  rs is the risk
\* manager's flags, usdc1 and usdc2 the outcomes of its two wallet reads.
approve_after_kill_check(rs, d, s, usdc1, usdc2) ==
  LET pv == get_portfolio_value(d, usdc1)
      realized == get_today_realized_pnl(d)
      unrealized == get_total_unrealized_pnl(d)
      daily == realized + unrealized
      alloc == get_strategy_allocation(s.strategy)
      exposure == get_strategy_exposure(d, s.strategy)
      halt == rs.daily_loss_halt
  IN IF rs.trading_halted THEN Verdict(FALSE, "Trading halted", halt)
     ELSE IF rs.daily_loss_halt THEN Verdict(FALSE, "Daily loss limit reached", halt)
     ELSE IF pv <= 0 THEN Verdict(FALSE, "Portfolio value is 0 or unknown", halt)
     ELSE IF daily < 0 /\ (0 - daily) * 100 >= daily_loss_limit_pct * pv
       THEN Verdict(FALSE, "Daily loss limit", TRUE)
     ELSE IF count_open_positions(d) >= max_open_positions
       THEN Verdict(FALSE, "Max open positions reached", halt)
     ELSE IF ~s.is_exit
             /\ \E i \in get_open_positions(d) : d.view.positions[i].market_id = s.market_id
       THEN Verdict(FALSE, "Market already has position", halt)
     ELSE IF s.size * 10000 * 100 > max_position_pct * pv
       THEN Verdict(FALSE, "Position size too large", halt)
     ELSE IF s.size < min_position_size_usd
       THEN Verdict(FALSE, "Position below min size", halt)
     ELSE IF alloc > 0 /\ (exposure + s.size * 10000) * 100 > pv * alloc
       THEN Verdict(FALSE, "Strategy allocation exceeded", halt)
     ELSE IF usdc2 = WalletError
       THEN Verdict(FALSE, "Balance check failed (fail-closed)", halt)
     ELSE IF (usdc2 - s.size) * 10000 * 100 < pv * min_cash_reserve_pct
       THEN Verdict(FALSE, "Cash reserve", halt)
     ELSE IF s.edge_pct # -1 /\ s.edge_pct < min_edge_pct
       THEN Verdict(FALSE, "Edge too low", halt)
     ELSE Verdict(TRUE, "Approved", halt)

\* approve_signal with the kill-switch check left out.
approve_signal_without_kill_check(rs, d, s, usdc1, usdc2) ==
  approve_after_kill_check(rs, d, s, usdc1, usdc2)

\* An approve_signal that looks at the pause flag before the kill switch.
approve_signal_pause_first(rs, d, s, usdc1, usdc2) ==
  IF rs.trading_halted THEN Verdict(FALSE, "Trading halted", rs.daily_loss_halt)
  ELSE IF rs.kill_switch_active
  THEN Verdict(FALSE, "Kill switch active", rs.daily_loss_halt)
  ELSE approve_after_kill_check(rs, d, s, usdc1, usdc2)

\* RiskManager.approve_signal.
approve_signal(rs, d, s, usdc1, usdc2) ==
  IF rs.kill_switch_active
  THEN Verdict(FALSE, "Kill switch active", rs.daily_loss_halt)
  ELSE approve_after_kill_check(rs, d, s, usdc1, usdc2)

\* RiskManager._persist_kill_switch_state: a raising store write is logged
\* and swallowed, and the store is left as it was.
persist_kill_switch_state(d, active, raises) ==
  IF raises THEN d ELSE set_metadata(d, IF active THEN "1" ELSE "0")

\* RiskManager._load_kill_switch_state: the stored value, FALSE when the
\* read raises; Database.conn raises while the store is not initialized.
load_kill_switch_state(d, initialized) ==
  IF ~initialized THEN FALSE ELSE get_metadata(d) = "1"

\* ------------------------------------------------------------------ state
VARIABLES
  kill_switch_active,   \* RiskManager._kill_switch_active
  trading_halted,       \* RiskManager._trading_halted
  daily_loss_halt,      \* RiskManager._daily_loss_halt
  rm_order_manager,     \* RiskManager._order_manager is set
  om_risk_manager,      \* OrderManager._risk_manager is set
  signal_queue,         \* OrderManager._signal_queue
  worker,               \* where process_signals stands in _execute_signal
  db,                   \* Database
  closing_positions,    \* PositionManager._closing_positions
  exits,                \* history: full exits submitted and not yet settled
  emits,                \* history: strategy evaluation cycles so far
  ev,                   \* history: what the last step did
  clock,                \* time.monotonic(), in tenths of a second
  rl,                   \* RateLimiter
  tasks,                \* where each caller of RateLimiter.acquire stands
  rl_hist,              \* history: recent returns of acquire, success streak
  ct,                   \* CopyTrader and the whale_positions table
  wsm,                  \* WebSocketManager
  net,                  \* time.monotonic() in seconds, history of the stream
  gamma,                \* the exchange: the resolution of each market
  strat                 \* BaseStrategy, its strategy_state row, its last stop

vars == << kill_switch_active, trading_halted, daily_loss_halt, rm_order_manager,
           om_risk_manager, signal_queue, worker, db, closing_positions,
           exits, emits, ev, clock, rl, tasks, rl_hist, ct, wsm, net, gamma,
           strat >>

\* The variables of the trading engine without the history of the last step,
\* and the variables outside the engine.
engine_state == << kill_switch_active, trading_halted, daily_loss_halt,
                   rm_order_manager, om_risk_manager, signal_queue, worker, db,
                   closing_positions, exits, emits >>
outside_engine == << clock, rl, tasks, rl_hist, ct, wsm, net, gamma, strat >>

RiskState ==
  [kill_switch_active |-> kill_switch_active, trading_halted |-> trading_halted,
   daily_loss_halt |-> daily_loss_halt]

\* The record of a step: op names the operation; approvals holds one entry
\* per approve_signal call of the step (whether the kill switch was active,
\* whether the call approved, whether its reason names the kill switch); submit tells whether the step called
\* create_and_place_order, for which intent kind, whether that intent had
\* been approved and whether the kill switch was active at the call;
\* drained and cancel_all_orders tell what a kill-switch step did to the
\* queue and the exchange; the rest describes fills and exits.
EvNone ==
  [op |-> "init", approvals |-> {}, submit |-> FALSE, kind |-> "",
   submit_approved |-> FALSE, submit_kill |-> FALSE, drained |-> 0,
   cancel_all_orders |-> FALSE, second_exit |-> FALSE, skipped |-> FALSE,
   entry_fill |-> FALSE, fail |-> "", trade_added |-> FALSE,
   position_added |-> FALSE, ratcheted |-> FALSE, market_id |-> "",
   outcome |-> ""]
Ev(op) == [EvNone EXCEPT !.op = op]

\* ------------------------------------------------------------ rate limiter
\* Ticks of the clock in one second.
TicksPerSecond == 10
\* The last value of the clock.
MaxClock == 24
\* The tasks that call RateLimiter.acquire.
NumCallers == 2
Callers == 1..NumCallers
\* The largest count of consecutive throttles.
MaxThrottles == 7

\* RateLimiter(max_requests=2, window_seconds=0.2).
max_requests == 2
window_seconds == 2
\* The margin acquire adds to its window sleep: 0.1 s.
WaitMargin == 1
_CONSECUTIVE_SUCCESS_THRESHOLD == 3
\* The cap of the backoff, in seconds.
MaxBackoffSeconds == 60

\* RateLimiter.__init__.
NewRateLimiter ==
  [timestamps |-> << >>, lock_owner |-> 0, backoff_until |-> 0,
   consecutive_rate_limits |-> 0, consecutive_successes |-> 0]

Min(a, b) == IF a < b THEN a ELSE b

\* A _prune_old that also drops a timestamp exactly window_seconds old.
RECURSIVE prune_old_inclusive(_, _)
prune_old_inclusive(ts, now) ==
  IF ts # << >> /\ Head(ts) <= now - window_seconds
  THEN prune_old_inclusive(Tail(ts), now) ELSE ts

\* RateLimiter._prune_old: popleft while the oldest timestamp is before the
\* cutoff.
RECURSIVE _prune_old(_, _)
_prune_old(ts, now) ==
  IF ts # << >> /\ Head(ts) < now - window_seconds
  THEN _prune_old(Tail(ts), now) ELSE ts

\* A lock that its owner keeps while it sleeps.
keep_lock(owner) == owner

\* RateLimiter.acquire, leaving the `async with self._lock` block: the lock
\* is free again before the sleep.
release_lock(owner) == 0

\* RateLimiter.record_rate_limit.
record_rate_limit(r, now) ==
  LET F == r.consecutive_rate_limits + 1
  IN [r EXCEPT !.consecutive_rate_limits = F,
               !.consecutive_successes = 0,
               !.backoff_until = now + Min(2^F, MaxBackoffSeconds) * TicksPerSecond]

\* A record_success that clears the error counter on every success.
record_success_clears_at_once(r) ==
  [r EXCEPT !.consecutive_rate_limits = 0, !.consecutive_successes = 0]

\* RateLimiter.record_success.
record_success(r) ==
  LET S == r.consecutive_successes + 1
  IN IF S >= _CONSECUTIVE_SUCCESS_THRESHOLD
     THEN [r EXCEPT !.consecutive_rate_limits = 0, !.consecutive_successes = 0]
     ELSE [r EXCEPT !.consecutive_successes = S]

IdleTask == [pc |-> "idle", wake_at |-> 0]

\* RateLimiter.acquire, one pass of the phase 2 loop by caller c at time now,
\* up to its return or its next suspension.  A caller that finds the lock
\* taken waits for it; otherwise it prunes and either claims a slot and
\* returns, or leaves the lock and sleeps until the oldest timestamp has
\* left the window, or (sleep_time <= 0) loops again without suspending.
acquire_pass(r, c, now) ==
  IF r.lock_owner # 0
  THEN [rl |-> r, task |-> [pc |-> "blocked", wake_at |-> 0],
        returned |-> FALSE, slot_free |-> FALSE]
  ELSE LET ts == _prune_old(r.timestamps, now)
       IN IF Len(ts) < max_requests
          THEN [rl |-> [r EXCEPT !.timestamps = Append(ts, now)],
                task |-> IdleTask, returned |-> TRUE, slot_free |-> TRUE]
          ELSE LET sleep_time == Head(ts) + window_seconds - now
               IN [rl |-> [r EXCEPT !.timestamps = ts,
                                    !.lock_owner = release_lock(c)],
                   task |-> IF sleep_time > 0
                            THEN [pc |-> "wait",
                                  wake_at |-> now + sleep_time + WaitMargin]
                            ELSE [pc |-> "spin", wake_at |-> 0],
                   returned |-> FALSE, slot_free |-> FALSE]

\* ------------------------------------------------------------ copy trader
\* The tokens a tracked account may hold, and the sizes (shares) a fetch
\* may report for one; 0 stands for a token that is absent from the fetch.
MirrorTokens == {"y1", "y2"}
WhaleSizes == {0, 500, 1000}
NoWhalePositions == [t \in MirrorTokens |-> 0]

\* The tracked account of wallets.yaml.
TrackedWallet == "w1"

\* _MIN_EXIT_SIZE_USD and the default of min_whale_position_usd.
_MIN_EXIT_SIZE_USD == 10
min_whale_position_usd == 500

IdleWorker == [pc |-> "idle", signal |-> NoSignal, retry_count |-> 0, backoff |-> 0]

\* TradingBot.__init__ builds the RiskManager before Database.initialize has
\* run (main.py:76 against main.py:102), so the load in its constructor
\* reads a store that is not initialized.
TradingBotLoadsInitialized == FALSE

EngineInit ==
  /\ kill_switch_active = load_kill_switch_state(EmptyDb, TradingBotLoadsInitialized)
  /\ trading_halted = FALSE
  /\ daily_loss_halt = FALSE
  /\ rm_order_manager = FALSE
  /\ om_risk_manager = FALSE
  /\ signal_queue = << >>
  /\ worker = IdleWorker
  /\ db = EmptyDb
  /\ closing_positions = {}
  /\ exits = {}
  /\ emits = 0
  /\ ev = EvNone

\* The rate limiter as TradingBot builds it, no task inside acquire.
LimiterInit ==
  /\ clock = 0
  /\ rl = NewRateLimiter
  /\ tasks = [c \in Callers |-> IdleTask]
  /\ rl_hist = [returns |-> << >>, streak |-> 0]

\* CopyTrader.initialize on an empty whale_positions table.
MirrorStart ==
  ct = [whale_cache |-> NoWhalePositions, whale_positions |-> NoWhalePositions]

\* ---------------------------------------------------- streaming client
StreamTokens == {"y1", "y2"}
_STALE_THRESHOLD_SEC == 30
_HEARTBEAT_CHECK_INTERVAL_SEC == 10
_FORCE_RECONNECT_AFTER_SEC == 60
_max_reconnect_delay == 60
MaxNow == 80
MaxConnects == 2
MaxPending == 1

\* The latest-price map with no entry: 0 stands for a token without one, and
\* for the None that get_latest_price returns.
NoPrices == [t \in StreamTokens |-> 0]
NoMessage == [kind |-> "none", tokens |-> {}]

\* WebSocketManager.__init__. _ws is 0 for None and the number of the
\* connection otherwise, closed is the closed attribute of that connection;
\* pc is where start() stands, ready the coroutines that ensure_future has
\* scheduled and that have not run yet, in the order of the event loop;
\* _heartbeat_task is 0 when no monitor runs and the time its sleep ends
\* otherwise.
NewWebSocketManager ==
  [_ws |-> 0, closed |-> FALSE, _subscribed_tokens |-> {},
   _last_message_time |-> 0, _latest_prices |-> NoPrices,
   _reconnect_delay |-> 1, _heartbeat_task |-> 0,
   pc |-> "connecting", ready |-> << >>]

\* time.monotonic() in seconds, and the history of the stream: the
\* connections opened so far, the first message sent on the current
\* connection, the tokens named by the subscribe messages sent on it, the
\* subscribed-set at the moment it was opened, the time since which it has
\* been silent (when it was opened or delivered its last message, 0 without
\* a connection), the time of the last message received on it (0 for none),
\* the last price parsed for each token and the tokens that unsubscribe has
\* named since their last price was parsed.
NewStream ==
  [now |-> _HEARTBEAT_CHECK_INTERVAL_SEC, connects |-> 0,
   first_sent |-> NoMessage, covered |-> {}, at_connect |-> {},
   quiet_since |-> 0, last_in |-> 0, parsed |-> NoPrices, dropped |-> {}]

StreamStart ==
  /\ wsm = NewWebSocketManager
  /\ net = NewStream

\* --------------------------------------------- the exchange's markets
\* What the Gamma API reports for each market: "" while it is unresolved,
\* the winning outcome once it is resolved.
GammaStart == gamma = [m \in Markets |-> ""]

\* ------------------------------------------------------------ strategies
\* Evaluation-loop tasks a strategy may create in a run of the model.
MaxLoops == 3

\* BaseStrategy._state is a dict, here a function from the keys it holds to
\* their values; the keys are those of the arbitrage scanner.
StateKeys == << "total_opportunities", "total_executed" >>
StateValues == {1, 2}
EmptyState == << >>

\* BaseStrategy.set_state: self._state[key] = value.
set_state(state, key, value) ==
  [k \in DOMAIN state \cup {key} |-> IF k = key THEN value ELSE state[k]]

\* json.dumps of a state: the text of its items, here the sequence of the
\* (key, value) pairs it holds.
json_dumps(state) ==
  LET Held(i) == StateKeys[i] \in DOMAIN state
      F[i \in 0..Len(StateKeys)] ==
        IF i = 0 THEN << >>
        ELSE IF Held(i) THEN Append(F[i - 1], << StateKeys[i], state[StateKeys[i]] >>)
        ELSE F[i - 1]
  IN F[Len(StateKeys)]

\* json.loads of such a text: the dict of its items.
json_loads(text) ==
  [k \in {text[i][1] : i \in DOMAIN text} |->
     LET i == CHOOSE j \in DOMAIN text : text[j][1] = k IN text[i][2]]

\* A start that finds no saved state whatever the table holds.
load_nothing(rows) == EmptyState

\* Database.load_strategy_state: the parsed state of the strategy's row,
\* None (here the empty state, which start() treats alike) when the table
\* has no row for it.
load_strategy_state(rows) ==
  IF rows = << >> THEN EmptyState ELSE json_loads(rows[1])

\* Database.save_strategy_state: INSERT OR REPLACE of the serialized state.
save_strategy_state(rows, state) == << json_dumps(state) >>

\* BaseStrategy.__init__ for an enabled strategy: not running, no
\* evaluation task, empty state.  loops tells where each task created so
\* far stands in _evaluation_loop ("none": not created); phase tells
\* whether start() or stop() has been called on the object.
NewObject ==
  [_running |-> FALSE, _eval_task |-> 0,
   loops |-> [i \in 1..MaxLoops |-> "none"], _state |-> EmptyState,
   phase |-> "new"]

\* The strategy in a fresh process on a fresh store: row holds the text of
\* the strategy's row of the strategy_state table when there is one, at_stop
\* the state the strategy had at its most recent stop() when there was one.
NewStrategy ==
  [_running |-> NewObject._running, _eval_task |-> NewObject._eval_task,
   loops |-> NewObject.loops, _state |-> NewObject._state,
   phase |-> NewObject.phase, row |-> << >>, at_stop |-> << >>]
StrategyStart == strat = NewStrategy

\* WebSocketManager.is_connected, seconds_since_last_message (no message
\* yet: infinity, which is_silent_for takes as longer than every
\* threshold), is_stale and get_latest_price.
is_connected(w) == w._ws # 0 /\ ~w.closed
is_silent_for(w, now, threshold) ==
  w._last_message_time = 0 \/ now - w._last_message_time > threshold
is_stale(w, now) == is_silent_for(w, now, _STALE_THRESHOLD_SEC)
get_latest_price(w, now, token_id) ==
  IF is_stale(w, now) THEN 0 ELSE w._latest_prices[token_id]

\* A disconnect that drops the reference and keeps the time of the last
\* message.
clear_reference_only(w) == [w EXCEPT !._ws = 0, !.closed = FALSE]

\* WebSocketManager._clear_connection.
_clear_connection(w) ==
  [w EXCEPT !._ws = 0, !.closed = FALSE, !._last_message_time = 0]

\* A reconnect that sends no subscribe message.
resubscribe_nothing(w) == {}

\* _connect_and_listen, the tokens of the subscribe message sent once the
\* connection is open.
resubscribe_tokens(w) == w._subscribed_tokens

Init ==
  EngineInit /\ LimiterInit /\ MirrorStart /\ StreamStart /\ GammaStart
    /\ StrategyStart

\* OrderManager.submit_signal: put_nowait, the intent is dropped when the
\* queue is full.
submit_signal(q, s) == IF Len(q) >= QueueCap THEN q ELSE Append(q, s)

\* A drain that leaves the queue as it is.
drain_nothing(q) == q

\* OrderManager._drain_signal_queue: empties the queue.
drain_signal_queue(q) == << >>

Approval(v) ==
  [kill |-> kill_switch_active, approved |-> v.approved,
   names_kill_switch |-> (v.reason = "Kill switch active")]

\* BaseStrategy.emit_signal: approve_signal, then submit_signal when
\* approved.  st carries the daily-loss flag, the queue and the approve
\* calls made so far in the step.
emit_signal(st, s, usdc1, usdc2) ==
  LET v == approve_signal([RiskState EXCEPT !.daily_loss_halt = st.halt],
                          db, s, usdc1, usdc2)
  IN [halt |-> v.daily_loss_halt,
      queue |-> IF v.approved
                THEN submit_signal(st.queue, [s EXCEPT !.approved = TRUE])
                ELSE st.queue,
      approvals |-> st.approvals \cup
        {Approval(v)}]

EmitStart == [halt |-> daily_loss_halt, queue |-> signal_queue, approvals |-> {}]

\* CopyTrader evaluation cycle that yields one entry intent.
EmitCopy ==
  /\ emits < MaxEmits
  /\ \E t \in {"y1", "y2"}, usdc1 \in WalletReads, usdc2 \in WalletReads :
       LET st == emit_signal(EmitStart, CopySignal(t), usdc1, usdc2)
       IN /\ daily_loss_halt' = st.halt
          /\ signal_queue' = st.queue
          /\ ev' = [Ev("emit") EXCEPT !.approvals = st.approvals]
  /\ emits' = emits + 1
  /\ UNCHANGED << outside_engine, kill_switch_active, trading_halted, rm_order_manager,
                  om_risk_manager, worker, db,
                  closing_positions, exits >>

\* ArbScanner evaluation cycle that yields the two legs of one arbitrage;
\* the evaluation loop emits them one after the other without suspending.
EmitArb ==
  /\ emits < MaxEmits
  /\ \E usdc1 \in WalletReads, usdc2 \in WalletReads,
        usdc3 \in WalletReads, usdc4 \in WalletReads :
       LET st1 == emit_signal(EmitStart, create_arb_signals[1], usdc1, usdc2)
           st2 == emit_signal(st1, create_arb_signals[2], usdc3, usdc4)
       IN /\ daily_loss_halt' = st2.halt
          /\ signal_queue' = st2.queue
          /\ ev' = [Ev("emit_arb") EXCEPT !.approvals = st2.approvals]
  /\ emits' = emits + 1
  /\ UNCHANGED << outside_engine, kill_switch_active, trading_halted, rm_order_manager,
                  om_risk_manager, worker, db,
                  closing_positions, exits >>

\* RiskManager.activate_kill_switch: flag, persist, drain the queue when an
\* order manager reference is set.
ActivateKillSwitch ==
  /\ \E raises \in BOOLEAN :
       db' = persist_kill_switch_state(db, TRUE, raises)
  /\ kill_switch_active' = TRUE
  /\ signal_queue' = IF rm_order_manager THEN drain_signal_queue(signal_queue)
                     ELSE signal_queue
  /\ ev' = [Ev("activate_kill_switch") EXCEPT
              !.drained = IF rm_order_manager THEN Len(signal_queue) ELSE 0]
  /\ UNCHANGED << outside_engine, trading_halted, daily_loss_halt, rm_order_manager,
                  om_risk_manager, worker, closing_positions,
                  exits, emits >>

\* RiskManager.deactivate_kill_switch.
DeactivateKillSwitch ==
  /\ \E raises \in BOOLEAN :
       db' = persist_kill_switch_state(db, FALSE, raises)
  /\ kill_switch_active' = FALSE
  /\ daily_loss_halt' = FALSE
  /\ ev' = Ev("deactivate_kill_switch")
  /\ UNCHANGED << outside_engine, trading_halted, rm_order_manager, om_risk_manager,
                  signal_queue, worker, closing_positions,
                  exits, emits >>

\* OrderManager.cancel_all: drain the queue, then cancel_all_orders on the
\* exchange.
CancelAll ==
  /\ signal_queue' = drain_signal_queue(signal_queue)
  /\ ev' = [Ev("cancel_all") EXCEPT !.drained = Len(signal_queue),
                                    !.cancel_all_orders = TRUE]
  /\ UNCHANGED << outside_engine, kill_switch_active, trading_halted, daily_loss_halt,
                  rm_order_manager, om_risk_manager, worker, db, closing_positions, exits, emits >>

\* The operator's kill command (do_kill in TradingBot._setup_telegram_callbacks,
\* _execute_kill_switch): activate_kill_switch, then cancel_all, which drains
\* the queue before it first suspends.
DoKill ==
  /\ \E raises \in BOOLEAN :
       db' = persist_kill_switch_state(db, TRUE, raises)
  /\ kill_switch_active' = TRUE
  /\ signal_queue' = drain_signal_queue(signal_queue)
  /\ ev' = [Ev("do_kill") EXCEPT !.drained = Len(signal_queue),
                                 !.cancel_all_orders = TRUE]
  /\ UNCHANGED << outside_engine, trading_halted, daily_loss_halt, rm_order_manager,
                  om_risk_manager, worker, closing_positions, exits, emits >>

\* RiskManager.pause_trading.
PauseTrading ==
  /\ ~trading_halted
  /\ trading_halted' = TRUE
  /\ ev' = Ev("pause_trading")
  /\ UNCHANGED << outside_engine, kill_switch_active, daily_loss_halt, rm_order_manager,
                  om_risk_manager, signal_queue, worker, db,
                  closing_positions, exits, emits >>

\* RiskManager.resume_trading.
ResumeTrading ==
  /\ trading_halted \/ daily_loss_halt
  /\ trading_halted' = FALSE
  /\ daily_loss_halt' = FALSE
  /\ ev' = Ev("resume_trading")
  /\ UNCHANGED << outside_engine, kill_switch_active, rm_order_manager, om_risk_manager,
                  signal_queue, worker, db, closing_positions,
                  exits, emits >>

\* RiskManager.set_order_manager.
SetOrderManager ==
  /\ ~rm_order_manager
  /\ rm_order_manager' = TRUE
  /\ ev' = Ev("set_order_manager")
  /\ UNCHANGED << outside_engine, kill_switch_active, trading_halted, daily_loss_halt,
                  om_risk_manager, signal_queue, worker, db,
                  closing_positions, exits, emits >>

\* OrderManager.set_risk_manager.
SetRiskManager ==
  /\ ~om_risk_manager
  /\ om_risk_manager' = TRUE
  /\ ev' = Ev("set_risk_manager")
  /\ UNCHANGED << outside_engine, kill_switch_active, trading_halted, daily_loss_halt,
                  rm_order_manager, signal_queue, worker, db,
                  closing_positions, exits, emits >>

\* A new TradingBot over the store a previous run left: every component is
\* built anew, the connection sees what was committed.
Restart ==
  /\ db' = [view |-> db.durable, durable |-> db.durable, in_transaction |-> FALSE]
  /\ kill_switch_active' = load_kill_switch_state(db', TradingBotLoadsInitialized)
  /\ trading_halted' = FALSE
  /\ daily_loss_halt' = FALSE
  /\ rm_order_manager' = FALSE
  /\ om_risk_manager' = FALSE
  /\ signal_queue' = << >>
  /\ worker' = IdleWorker
  /\ closing_positions' = {}
  /\ ev' = Ev("restart")
  /\ UNCHANGED << outside_engine, exits, emits >>

\* --------------------------------------------------------- order manager
\* What ClobClient.create_and_place_order followed by _confirm_fill can
\* report: filled, rejected by the exchange, or (FOK) accepted and found
\* still open by the confirmation poll.
Outcomes(s) ==
  {"filled", "rejected"} \cup (IF s.order_type = "FOK" THEN {"not_filled"} ELSE {})

\* The id the exchange gives an accepted order: one no recorded trade has.
fresh_order_id(d) == Cardinality(d.view.trades) + 1

\* Where the recording of a fill can raise: nowhere, in record_trade, in
\* open_position, in the notifier call, or at COMMIT.
TxFailures == {"none", "record_trade", "open_position", "notify", "commit"}

\* The success branch of OrderManager._execute_signal: record_trade and, for
\* an entry BUY, open_position inside Database.transaction; an exception
\* anywhere in the scope rolls the transaction back.
RecordFill(d, s, order_id, fail) ==
  LET d1 == Begin(d)
      d2 == record_trade(d1, order_id, s)
      d3 == IF ~s.is_exit /\ s.side = "BUY" THEN open_position(d2, s) ELSE d2
  IN IF fail = "record_trade" THEN RollbackTransaction(d1)
     ELSE IF fail = "open_position" THEN RollbackTransaction(d2)
     ELSE IF fail \in {"notify", "commit"} THEN RollbackTransaction(d3)
     ELSE CommitTransaction(d3)

\* A retry loop that tests its counter after the increment: one retry more.
EnterRetry_one_more(s, n) ==
  IF n <= MAX_EXIT_RETRIES
  THEN [pc |-> "retry_sleep", signal |-> s, retry_count |-> n + 1,
        backoff |-> EXIT_RETRY_BACKOFF_BASE ^ (n + 1)]
  ELSE IdleWorker

\* The exit retry loop of _execute_signal, at its head: while fewer than
\* MAX_EXIT_RETRIES retries were made, count one more and sleep
\* EXIT_RETRY_BACKOFF_BASE ** retry_count seconds before it; give up
\* otherwise.
EnterRetry(s, n) ==
  IF n < MAX_EXIT_RETRIES
  THEN [pc |-> "retry_sleep", signal |-> s, retry_count |-> n + 1,
        backoff |-> EXIT_RETRY_BACKOFF_BASE ^ (n + 1)]
  ELSE IdleWorker

\* OrderManager._rollback_arb_leg1: the compensating SELL of leg 1.
rollback_signal(s) ==
  [Signal("arb_scanner", s.market_id, s.arb_rollback_token_id, "SELL",
          s.arb_rollback_price, s.arb_rollback_size_usd, "FOK")
     EXCEPT !.is_exit = TRUE]

\* The failure branch of _execute_signal: leg 2 of an arbitrage rolls leg 1
\* back, an exit enters the retry loop, anything else is given up.
AfterFailure(s) ==
  IF s.arb_leg = 2 /\ s.arb_rollback_token_id # "" /\ s.arb_rollback_price # 0
     /\ s.arb_rollback_size_usd # 0
  THEN [pc |-> "rollback", signal |-> s, retry_count |-> 0, backoff |-> 0]
  ELSE IF s.is_exit THEN EnterRetry(s, 0)
  ELSE IdleWorker

\* The full exit of position id has been filled.
MarkFilled(E, s) ==
  IF s.has_pnl
  THEN {IF e.id = s.position_id THEN [e EXCEPT !.filled = TRUE] ELSE e : e \in E}
  ELSE E

IntentKind(s) ==
  IF s.has_pnl THEN "exit" ELSE IF s.is_exit THEN "partial_exit"
  ELSE IF s.arb_leg # 0 THEN "arb" ELSE "entry"

Submitted(op, s, kind) ==
  [Ev(op) EXCEPT !.submit = TRUE, !.kind = kind, !.submit_approved = s.approved,
                 !.submit_kill = kill_switch_active]

\* process_signals takes the next intent; _execute_signal runs the risk check
\* when a risk manager is set, and then waits for the rate limiter.
Dequeue ==
  /\ worker.pc = "idle"
  /\ signal_queue # << >>
  /\ signal_queue' = Tail(signal_queue)
  /\ LET s == Head(signal_queue)
     IN IF om_risk_manager
        THEN \E usdc1 \in WalletReads, usdc2 \in WalletReads :
               LET v == approve_signal(RiskState, db, s, usdc1, usdc2)
               IN /\ daily_loss_halt' = v.daily_loss_halt
                  /\ worker' = IF v.approved
                               THEN [pc |-> "acquire",
                                     signal |-> [s EXCEPT !.approved = TRUE],
                                     retry_count |-> 0, backoff |-> 0]
                               ELSE IdleWorker
                  /\ ev' = [Ev("dequeue") EXCEPT !.approvals = {Approval(v)}]
        ELSE /\ daily_loss_halt' = daily_loss_halt
             /\ worker' = [pc |-> "acquire", signal |-> s, retry_count |-> 0,
                           backoff |-> 0]
             /\ ev' = Ev("dequeue")
  /\ UNCHANGED << outside_engine, kill_switch_active, trading_halted, rm_order_manager,
                  om_risk_manager, db, closing_positions,
                  exits, emits >>

\* _execute_signal after the rate limiter: create_and_place_order, fill
\* confirmation, and the success or failure branch.
Place ==
  /\ worker.pc = "acquire"
  /\ LET s == worker.signal
     IN \E outcome \in Outcomes(s), fail \in TxFailures :
          /\ fail # "none" => outcome = "filled"
          /\ fail = "open_position" => ~s.is_exit /\ s.side = "BUY"
          /\ db' = IF outcome = "filled"
                   THEN RecordFill(db, s, fresh_order_id(db), fail) ELSE db
          /\ worker' = IF outcome = "filled" THEN IdleWorker ELSE AfterFailure(s)
          /\ exits' = IF outcome = "filled" THEN MarkFilled(exits, s) ELSE exits
          /\ ev' = [Submitted("place", s, IntentKind(s)) EXCEPT
                      !.entry_fill = (outcome = "filled" /\ ~s.is_exit /\ s.side = "BUY"),
                      !.fail = IF outcome = "filled" THEN fail ELSE "failed",
                      !.trade_added = (db'.durable.trades # db.durable.trades),
                      !.position_added =
                         (Len(db'.durable.positions) > Len(db.durable.positions))]
  /\ UNCHANGED << outside_engine, kill_switch_active, trading_halted, daily_loss_halt,
                  rm_order_manager, om_risk_manager, signal_queue,
                  closing_positions, emits >>

\* _rollback_arb_leg1 after the rate limiter: _execute_signal_inner places
\* the compensating order; nothing is recorded whatever the outcome.
RollbackPlace ==
  /\ worker.pc = "rollback"
  /\ LET s == worker.signal
         r == rollback_signal(s)
     IN \E outcome \in Outcomes(r) :
          /\ worker' = IF s.is_exit THEN EnterRetry(s, 0) ELSE IdleWorker
          /\ ev' = [Submitted("rollback", r, "rollback") EXCEPT
                      !.fail = IF outcome = "filled" THEN "none" ELSE "failed"]
  /\ UNCHANGED << outside_engine, kill_switch_active, trading_halted, daily_loss_halt,
                  rm_order_manager, om_risk_manager, signal_queue,
                  db, closing_positions, exits, emits >>

\* One turn of the exit retry loop after its sleep: _execute_signal_inner
\* places the order again; a fill ends the loop, a failure goes back to its
\* head.
RetryPlace ==
  /\ worker.pc = "retry_sleep"
  /\ LET s == worker.signal
     IN \E outcome \in Outcomes(s) :
          /\ worker' = IF outcome = "filled" THEN IdleWorker
                       ELSE EnterRetry(s, worker.retry_count)
          /\ exits' = IF outcome = "filled" THEN MarkFilled(exits, s) ELSE exits
          /\ ev' = [Submitted("retry", s, "retry") EXCEPT
                      !.fail = IF outcome = "filled" THEN "none" ELSE "failed"]
  /\ UNCHANGED << outside_engine, kill_switch_active, trading_halted, daily_loss_halt,
                  rm_order_manager, om_risk_manager, signal_queue,
                  db, closing_positions, emits >>

\* ------------------------------------------------------ position manager
\* _calc_pnl_pct(side, entry, price) >= pct and <= pct, cross-multiplied by
\* the entry price; the percentage is 0 when the entry price is not
\* positive.
PnlNum(side, entry, price) ==
  IF side = "BUY" THEN (price - entry) * 100 ELSE (entry - price) * 100
PnlAtLeast(side, entry, price, pct) ==
  IF entry <= 0 THEN 0 >= pct ELSE PnlNum(side, entry, price) >= pct * entry
PnlAtMost(side, entry, price, pct) ==
  IF entry <= 0 THEN 0 <= pct ELSE PnlNum(side, entry, price) <= pct * entry
PnlPositive(side, entry, price) == entry > 0 /\ PnlNum(side, entry, price) > 0

\* _calc_gross_pnl and _estimate_fees, in 1/10000 dollar.
calc_gross_pnl(side, entry, exit, size) ==
  IF side = "BUY" THEN (exit - entry) * size * 100
  ELSE (entry - exit) * size * 100
estimate_fees(entry, exit, size) ==
  (size * entry * TAKER_FEE_RATE) \div 100 + (size * exit * TAKER_FEE_RATE) \div 100

OtherSide(side) == IF side = "BUY" THEN "SELL" ELSE "BUY"

\* on_price_update's loop with its two guards left out.
never_skip_position(closing, id, row) == FALSE

\* The guards at the head of on_price_update's loop: the position is in
\* _closing_positions, or its row is in status closing.
skip_position(closing, id, row) == id \in closing \/ row.status = "closing"

\* PositionManager._close_position.  st carries the store, the queue, the
\* closing guard and the exit history through the handler.
pm_close_position(st, id, row, exit_price, reason) ==
  IF id \in st.closing THEN st
  ELSE
    LET pnl == calc_gross_pnl(row.side, row.entry_price, exit_price, row.size)
               - estimate_fees(row.entry_price, exit_price, row.size)
        s == [Signal(row.strategy, row.market_id, row.token_id, OtherSide(row.side),
                     exit_price, (row.size * exit_price) \div 100, "FOK")
                EXCEPT !.is_exit = TRUE, !.position_id = id,
                       !.has_pnl = TRUE, !.realized_pnl = pnl]
    IN [st EXCEPT
          !.closing = @ \cup {id},
          !.queue = submit_signal(@, s),
          !.db = set_position_closing(@, id, reason),
          !.second = @ \/ (\E e \in st.exits : e.id = id),
          !.exits = {e \in @ : e.id # id} \cup
                    {[id |-> id, filled |-> FALSE, pnl |-> pnl, reason |-> reason]}]

\* PositionManager._partial_close.
pm_partial_close(st, id, row, price, sell_size, tier_index) ==
  LET s == [Signal(row.strategy, row.market_id, row.token_id, OtherSide(row.side),
                   price, (sell_size * price) \div 100, "FOK")
              EXCEPT !.is_exit = TRUE, !.position_id = id]
  IN [st EXCEPT
        !.queue = submit_signal(@, s),
        !.db = update_position_partial_close(@, id, row.size - sell_size, tier_index),
        !.second = @ \/ (\E e \in st.exits : e.id = id)]

\* The trailing-stop level that price sets for a position of this side.
new_trailing(side, price) ==
  IF side = "BUY" THEN (price * (100 - trailing_stop_pct)) \div 100
  ELSE (price * (100 + trailing_stop_pct)) \div 100

\* The first tier, from index tp_triggered on, whose gain the position has
\* reached; 0 when there is none (tiers are numbered from 1 here).
first_tier(row, price) ==
  LET hit == {i \in 1..Len(get_take_profit_tiers) :
                /\ i - 1 >= row.take_profit_triggered
                /\ PnlAtLeast(row.side, row.entry_price, price,
                              get_take_profit_tiers[i].gain_pct)}
  IN IF hit = {} THEN 0 ELSE CHOOSE i \in hit : \A j \in hit : i <= j

\* A take-profit loop without its break: every tier whose gain is reached
\* triggers in the same update.
take_profit_every_tier(st, id, row, price) ==
  LET hit == {i \in 1..Len(get_take_profit_tiers) :
                /\ i - 1 >= row.take_profit_triggered
                /\ PnlAtLeast(row.side, row.entry_price, price,
                              get_take_profit_tiers[i].gain_pct)}
      partial == {i \in hit : get_take_profit_tiers[i].sell_pct < 100}
      top == IF partial = {} THEN 0
             ELSE CHOOSE i \in partial : \A j \in partial : j <= i
      st1 == IF top = 0 THEN st
             ELSE pm_partial_close(
                    st, id, row, price,
                    (row.size * get_take_profit_tiers[top].sell_pct) \div 100, top)
  IN IF hit # partial THEN pm_close_position(st1, id, row, price, "take_profit")
     ELSE st1

\* The take-profit part of the loop body.
take_profit(st, id, row, price) ==
  LET i == first_tier(row, price)
  IN IF i = 0 THEN st
     ELSE IF get_take_profit_tiers[i].sell_pct >= 100
       THEN pm_close_position(st, id, row, price, "take_profit")
     ELSE
       LET sell_size == (row.size * get_take_profit_tiers[i].sell_pct) \div 100
           st1 == pm_partial_close(st, id, row, price, sell_size, i)
       IN IF row.trailing_stop_price = 0
          THEN [st1 EXCEPT !.db = update_position_trailing_stop(
                                     @, id, new_trailing(row.side, price))]
          ELSE st1

\* A ratchet that follows the price in both directions.
ratchet_both_ways(st, id, row, price) ==
  IF row.trailing_stop_price # 0 /\ PnlPositive(row.side, row.entry_price, price)
  THEN [st EXCEPT !.db = update_position_trailing_stop(
                           @, id, new_trailing(row.side, price)),
                  !.ratcheted = TRUE]
  ELSE st

\* The ratchet at the end of the loop body.
ratchet(st, id, row, price) ==
  LET nt == new_trailing(row.side, price)
      tp == row.trailing_stop_price
  IN IF tp # 0 /\ PnlPositive(row.side, row.entry_price, price)
        /\ ((row.side = "BUY" /\ nt > tp) \/ (row.side = "SELL" /\ nt < tp))
     THEN [st EXCEPT !.db = update_position_trailing_stop(@, id, nt),
                     !.ratcheted = TRUE]
     ELSE st

\* The body of on_price_update's loop for one position of the snapshot.
process_position(st, id, row, token_id, price) ==
  IF row.token_id # token_id THEN st
  ELSE IF skip_position(st.closing, id, row)
    THEN [st EXCEPT !.skipped = @ \/ (\E e \in st.exits : e.id = id)]
  ELSE
    LET st1 == [st EXCEPT !.db = update_position_price(@, id, price)]
        tp == row.trailing_stop_price
    IN IF PnlAtMost(row.side, row.entry_price, price, 0 - stop_loss_pct)
       THEN pm_close_position(st1, id, row, price, "stop_loss")
       ELSE IF tp # 0 /\ ((row.side = "BUY" /\ price <= tp)
                          \/ (row.side = "SELL" /\ price >= tp))
       THEN pm_close_position(st1, id, row, price, "trailing_stop")
       ELSE ratchet(take_profit(st1, id, row, price), id, row, price)

RECURSIVE price_loop(_, _, _, _, _)
\* on_price_update's loop over the snapshot, newest position first.
price_loop(st, snapshot, ids, token_id, price) ==
  IF ids = {} THEN st
  ELSE LET id == CHOOSE i \in ids : \A j \in ids : i >= j
       IN price_loop(process_position(st, id, snapshot[id], token_id, price),
                     snapshot, ids \ {id}, token_id, price)

\* PositionManager.on_price_update, for a price out of P.
on_price_update(P) ==
  \E token_id \in Tokens, price \in P :
    /\ \E i \in get_open_positions(db) : db.view.positions[i].token_id = token_id
    /\ LET st0 == [db |-> db, queue |-> signal_queue, closing |-> closing_positions,
                   exits |-> exits, second |-> FALSE, skipped |-> FALSE,
                   ratcheted |-> FALSE]
           st == price_loop(st0, db.view.positions, get_open_positions(db),
                            token_id, price)
       IN /\ db' = st.db
          /\ signal_queue' = st.queue
          /\ closing_positions' = st.closing
          /\ exits' = st.exits
          /\ ev' = [Ev("on_price_update") EXCEPT !.second_exit = st.second,
                                                 !.skipped = st.skipped,
                                                 !.ratcheted = st.ratcheted]
    /\ UNCHANGED << outside_engine, kill_switch_active, trading_halted, daily_loss_halt,
                    rm_order_manager, om_risk_manager, worker, emits >>

\* PositionManager.on_price_update, called by the price feed.
OnPriceUpdate == on_price_update(Prices)

\* The full-exit intent of position id is still queued or being executed.
InFlight(id) ==
  \/ \E k \in 1..Len(signal_queue) :
       signal_queue[k].has_pnl /\ signal_queue[k].position_id = id
  \/ worker.pc # "idle" /\ worker.signal.has_pnl /\ worker.signal.position_id = id

\* PositionManager.confirm_close, called for a position whose exit order
\* was filled, with the P&L and the reason of that exit.
ConfirmClose ==
  \E e \in exits :
    /\ e.filled
    /\ db' = close_position(db, e.id, e.pnl, e.reason)
    /\ closing_positions' = closing_positions \ {e.id}
    /\ exits' = exits \ {e}
    /\ ev' = Ev("confirm_close")
    /\ UNCHANGED << outside_engine, kill_switch_active, trading_halted, daily_loss_halt,
                    rm_order_manager, om_risk_manager, signal_queue, worker,
                    emits >>

\* PositionManager.release_closing_guard, called for a position whose exit
\* intent was dropped, rejected or given up.
ReleaseClosingGuard ==
  \E e \in exits :
    /\ ~e.filled
    /\ ~InFlight(e.id)
    /\ closing_positions' = closing_positions \ {e.id}
    /\ exits' = exits \ {e}
    /\ ev' = Ev("release_closing_guard")
    /\ UNCHANGED << outside_engine, kill_switch_active, trading_halted, daily_loss_halt,
                    rm_order_manager, om_risk_manager, signal_queue, worker,
                    db, emits >>

\* The realized P&L check_market_resolution books for a row, in
\* 1/10000 dollar: resolution price 1 or 0, entry fee, winner fee on a gain.
resolution_pnl(row, outcome) ==
  LET token_won == \/ row.token_id = outcome
                   \/ outcome = "yes" /\ row.token_id = row.yes_token_id
      res == IF row.side = "BUY" THEN (IF token_won THEN 100 ELSE 0)
             ELSE (IF token_won THEN 0 ELSE 100)
      gross == calc_gross_pnl(row.side, row.entry_price, res, row.size)
      entry_fee == (row.size * row.entry_price * TAKER_FEE_RATE) \div 100
      winner_fee == IF gross > 0 THEN (res * row.size * WINNER_FEE_RATE) \div 100 ELSE 0
  IN gross - entry_fee - winner_fee

RECURSIVE resolution_loop(_, _, _, _)
\* check_market_resolution's loop: every live position of the market is
\* closed with reason market_resolved.
resolution_loop(d, snapshot, ids, outcome) ==
  IF ids = {} THEN d
  ELSE LET id == CHOOSE i \in ids : \A j \in ids : i >= j
       IN resolution_loop(
            close_position(d, id, resolution_pnl(snapshot[id], outcome),
                           "market_resolved"),
            snapshot, ids \ {id}, outcome)

\* PositionManager.check_market_resolution.
CheckMarketResolution ==
  \E market_id \in Markets, outcome \in Tokens \cup {"yes", "no"} :
    LET ids == {i \in get_open_positions(db) :
                  db.view.positions[i].market_id = market_id}
    IN /\ ids # {}
       /\ outcome \in Tokens => MarketOf(outcome) = market_id
       /\ db' = resolution_loop(db, db.view.positions, ids, outcome)
       /\ closing_positions' = closing_positions \ ids
       /\ ev' = [Ev("check_market_resolution") EXCEPT !.market_id = market_id,
                                                     !.outcome = outcome]
       /\ UNCHANGED << outside_engine, kill_switch_active, trading_halted, daily_loss_halt,
                       rm_order_manager, om_risk_manager, signal_queue, worker,
                       exits, emits >>

\* The engine as TradingBot builds and drives it: strategies, the worker, the
\* position manager and the operator's kill command.  TradingBot wires
\* neither manager into the other and never deactivates the kill switch.
Next ==
  \/ EmitCopy
  \/ EmitArb
  \/ Dequeue
  \/ Place
  \/ RollbackPlace
  \/ RetryPlace
  \/ OnPriceUpdate
  \/ ConfirmClose
  \/ ReleaseClosingGuard
  \/ CheckMarketResolution
  \/ DoKill

Spec == Init /\ [][Next]_vars

\* The risk manager with every operation of its interface, the wiring
\* setters and restarts, over the strategies and the worker.
RiskNext ==
  \/ EmitCopy
  \/ EmitArb
  \/ Dequeue
  \/ Place
  \/ RollbackPlace
  \/ ActivateKillSwitch
  \/ DeactivateKillSwitch
  \/ CancelAll
  \/ PauseTrading
  \/ ResumeTrading
  \/ SetOrderManager
  \/ SetRiskManager
  \/ Restart

RiskSpec == Init /\ [][RiskNext]_vars

\* ------------------------------------------- approve_signal on its own
\* A wallet read of a nearly empty account.
WalletLow == 60
ApproveWalletReads == {WalletError, WalletLow, WalletBalance}

RECURSIVE Opened(_, _, _)
\* A store after n entries on a market were filled.
Opened(d, s, n) == IF n = 0 THEN d ELSE Opened(open_position(d, s), s, n - 1)

\* Stores that reach every check of approve_signal that reads the store: no
\* position; a live position on m1; a closed position of today with a loss
\* of $60; max_open_positions live positions on another market; a live
\* arb_scanner position of $40 on m2.
ApproveDbs ==
  {EmptyDb,
   open_position(EmptyDb, CopySignal("y1")),
   close_position(open_position(EmptyDb, CopySignal("y2")), 1, 0 - 600000,
                  "stop_loss"),
   Opened(EmptyDb, [CopySignal("y2") EXCEPT !.market_id = "m9"],
          max_open_positions),
   open_position(EmptyDb, [ArbLeg1 EXCEPT !.market_id = "m2", !.token_id = "y2",
                                          !.size = 100])}

\* The intents approve_signal is called with: m1, notional $3 to $100, with
\* and without the exit mark and the edge estimate.
ApproveSignals ==
  {[CopySignal("y1") EXCEPT !.strategy = strategy, !.size = size,
                            !.is_exit = is_exit, !.edge_pct = edge_pct] :
     strategy \in {"copy_trader", "arb_scanner"}, size \in {3, 5, 20, 70, 100},
     is_exit \in BOOLEAN, edge_pct \in {-1, 3, 8}}

ApproveInit ==
  /\ kill_switch_active \in BOOLEAN
  /\ trading_halted \in BOOLEAN
  /\ daily_loss_halt \in BOOLEAN
  /\ rm_order_manager = FALSE
  /\ om_risk_manager = FALSE
  /\ signal_queue \in {<< s >> : s \in ApproveSignals}
  /\ worker = IdleWorker
  /\ db \in ApproveDbs
  /\ closing_positions = {}
  /\ exits = {}
  /\ emits = 0
  /\ ev = EvNone
  /\ LimiterInit
  /\ MirrorStart
  /\ StreamStart
  /\ GammaStart
  /\ StrategyStart

\* RiskManager.approve_signal, called for the intent at the head of the
\* queue; the step keeps the arguments, the flags before the call and the
\* verdict.
ApproveSignalCall ==
  /\ ev.op = "init"
  /\ \E usdc1 \in ApproveWalletReads, usdc2 \in ApproveWalletReads :
       LET s == Head(signal_queue)
           v == approve_signal(RiskState, db, s, usdc1, usdc2)
       IN /\ daily_loss_halt' = v.daily_loss_halt
          /\ ev' = [op |-> "approve_signal", signal |-> s, usdc1 |-> usdc1,
                    usdc2 |-> usdc2, before |-> RiskState, verdict |-> v]
  /\ UNCHANGED << outside_engine, kill_switch_active, trading_halted,
                  rm_order_manager, om_risk_manager, signal_queue, worker, db,
                  closing_positions, exits, emits >>

ApproveNext ==
  \/ ApproveSignalCall

ApproveSpec == ApproveInit /\ [][ApproveNext]_vars

\* ------------------------------------------------- rate limiter, actions
\* What is outside the rate limiter.
outside_limiter == << engine_state, ct, wsm, net, gamma, strat >>

Sleeping(c) == tasks[c].pc \in {"backoff", "wait"}

\* A caller in the phase 2 loop with sleep_time <= 0 loops without
\* suspending, so no other task runs until it has suspended or returned.
NoOtherSpin(c) == \A d \in Callers \ {c} : tasks[d].pc # "spin"

\* The returns of acquire that a window ending at or after now can hold.
Recent(returns, now) ==
  LET Keep(x) == x >= now - window_seconds
  IN SelectSeq(returns, Keep)

\* The requests of the last window_seconds, counted from the timestamps.
InWindow(ts, now) ==
  Cardinality({i \in DOMAIN ts : ts[i] >= now - window_seconds})

LimiterEv(op, c, entered, free, returned) ==
  [op |-> op, task |-> c, entered |-> entered, free_before |-> free,
   returned |-> returned,
   sleeper |-> (\E d \in Callers \ {c} : Sleeping(d))]

\* One pass of the loop by caller c, as a step.
Pass(op, c) ==
  LET p == acquire_pass(rl, c, clock)
  IN /\ rl' = p.rl
     /\ tasks' = [tasks EXCEPT ![c] = p.task]
     /\ rl_hist' = IF p.returned
                   THEN [rl_hist EXCEPT !.returns = Append(@, clock)]
                   ELSE rl_hist
     /\ ev' = LimiterEv(op, c, TRUE,
                        InWindow(rl.timestamps, clock) < max_requests,
                        p.returned)

\* RateLimiter.acquire, from the call to the return or the first suspension:
\* phase 1 sleeps for the rest of a backoff, otherwise the loop is entered.
AcquireCall ==
  \E c \in Callers :
    /\ tasks[c].pc = "idle"
    /\ NoOtherSpin(c)
    /\ IF clock < rl.backoff_until
       THEN /\ tasks' = [tasks EXCEPT ![c] = [pc |-> "backoff",
                                              wake_at |-> rl.backoff_until]]
            /\ ev' = LimiterEv("acquire", c, FALSE, FALSE, FALSE)
            /\ UNCHANGED << rl, rl_hist >>
       ELSE Pass("acquire", c)
    /\ UNCHANGED << outside_limiter, clock >>

\* RateLimiter.acquire, resumed: asyncio.sleep is over (at its time or
\* later), or the lock the caller waited for is free, or the caller loops
\* again without having suspended.
Resume ==
  \E c \in Callers :
    /\ tasks[c].pc # "idle"
    /\ Sleeping(c) => clock >= tasks[c].wake_at
    /\ tasks[c].pc = "blocked" => rl.lock_owner = 0
    /\ NoOtherSpin(c)
    /\ Pass("resume", c)
    /\ UNCHANGED << outside_limiter, clock >>

\* Time passes: one tick, or up to the time a sleeping caller is due.
Tick ==
  /\ clock < MaxClock
  /\ \E next \in (clock + 1)..MaxClock :
       /\ \/ next = clock + 1
          \/ \E c \in Callers : Sleeping(c) /\ tasks[c].wake_at = next
       /\ clock' = next
       /\ rl_hist' = [rl_hist EXCEPT !.returns = Recent(@, next)]
  /\ ev' = LimiterEv("tick", 0, FALSE, FALSE, FALSE)
  /\ UNCHANGED << outside_limiter, rl, tasks >>

\* RateLimiter.record_rate_limit, called by the worker on a 429.
RecordRateLimit ==
  /\ rl.consecutive_rate_limits < MaxThrottles
  /\ rl' = record_rate_limit(rl, clock)
  /\ rl_hist' = [rl_hist EXCEPT !.streak = 0]
  /\ ev' = LimiterEv("record_rate_limit", 0, FALSE, FALSE, FALSE)
  /\ UNCHANGED << outside_limiter, clock, tasks >>

\* RateLimiter.record_success, called by the worker on a successful order.
RecordSuccess ==
  /\ rl' = record_success(rl)
  /\ rl_hist' = [rl_hist EXCEPT
                   !.streak = Min(@ + 1, _CONSECUTIVE_SUCCESS_THRESHOLD)]
  /\ ev' = LimiterEv("record_success", 0, FALSE, FALSE, FALSE)
  /\ UNCHANGED << outside_limiter, clock, tasks >>

\* Callers of acquire on a limiter that is fresh or was throttled once.
AcquireInit ==
  /\ EngineInit
  /\ clock = 0
  /\ rl \in {NewRateLimiter, record_rate_limit(NewRateLimiter, 0)}
  /\ tasks = [c \in Callers |-> IdleTask]
  /\ rl_hist = [returns |-> << >>, streak |-> 0]
  /\ MirrorStart
  /\ StreamStart
  /\ GammaStart
  /\ StrategyStart

AcquireNext ==
  \/ AcquireCall
  \/ Resume
  \/ Tick

AcquireSpec == AcquireInit /\ [][AcquireNext]_vars

\* The throttle bookkeeping of the limiter over time.
ThrottleNext ==
  \/ RecordRateLimit
  \/ RecordSuccess
  \/ Tick

ThrottleSpec == Init /\ [][ThrottleNext]_vars

\* --------------------------------------------------- copy trader, actions
outside_mirror == << engine_state, clock, rl, tasks, rl_hist, wsm, net, gamma,
                   strat >>

\* CopyTrader._detect_whale_exits, the search for the engine's position that
\* mirrors account a on token t: the first row of get_open_positions
\* (strategy copy_trader, latest opened first) whose metadata names the
\* account and whose token is t; 0 when there is none.
matching_pos(d, a, t) ==
  LET found == {i \in get_open_positions(d) :
                  /\ d.view.positions[i].strategy = "copy_trader"
                  /\ d.view.positions[i].source_wallet = a
                  /\ d.view.positions[i].token_id = t}
  IN IF found = {} THEN 0 ELSE CHOOSE i \in found : \A j \in found : j <= i

\* our_entry_size_usd * reduction_pct / 100, in cents: entry price (cents)
\* times size times the share of the previous holding that is gone.
exit_size_cents(row, prev_size, current_size) ==
  (row.entry_price * row.size * (prev_size - current_size)) \div prev_size

\* CopyTrader._detect_whale_exits: one SELL for every token of the previous
\* snapshot that is gone or reduced by more than 30%, for which the engine
\* holds a matching position, a price is available and the exit size is not
\* below _MIN_EXIT_SIZE_USD.
_detect_whale_exits(d, a, prev, cur, price) ==
  {[side |-> "SELL", strategy |-> "copy_trader", market_id |-> MarketOf(t),
    token_id |-> t, price |-> price[t],
    size_cents |-> exit_size_cents(d.view.positions[matching_pos(d, a, t)],
                                   prev[t], cur[t]),
    source_wallet |-> a, matching_position_id |-> matching_pos(d, a, t),
    full_exit |-> (cur[t] = 0)] :
   t \in {u \in MirrorTokens :
            /\ prev[u] > 0
            /\ cur[u] = 0 \/ cur[u] * 100 < prev[u] * 70
            /\ matching_pos(d, a, u) # 0
            /\ price[u] # 0
            /\ exit_size_cents(d.view.positions[matching_pos(d, a, u)],
                               prev[u], cur[u]) >= _MIN_EXIT_SIZE_USD * 100}}

\* CopyTrader._detect_whale_entries with the fixed sizing method and no
\* recorded whale entry price: one BUY for every token that is new or grew
\* by more than 10%, has a price and passes the conviction filter.
_detect_whale_entries(a, prev, cur, price) ==
  {[side |-> "BUY", strategy |-> "copy_trader", market_id |-> MarketOf(t),
    token_id |-> t, price |-> price[t], size_cents |-> CopySignal(t).size * 100,
    source_wallet |-> a, matching_position_id |-> 0, full_exit |-> FALSE] :
   t \in {u \in MirrorTokens :
            /\ cur[u] > 0
            /\ prev[u] = 0 \/ cur[u] * 100 > prev[u] * 110
            /\ price[u] # 0
            /\ cur[u] * price[u] >= min_whale_position_usd * 100}}

\* The full exits of the tracked account this cycle that the engine has to
\* mirror: the token was in the previous snapshot and is absent from the
\* fetch, the engine holds a matching live position, a price is available
\* and the exit size is above the minimum.
MirroredExits(d, a, prev, cur, price) ==
  {[token_id |-> t, id |-> matching_pos(d, a, t)] :
   t \in {u \in MirrorTokens :
            /\ prev[u] > 0 /\ cur[u] = 0
            /\ matching_pos(d, a, u) # 0
            /\ price[u] # 0
            /\ exit_size_cents(d.view.positions[matching_pos(d, a, u)],
                               prev[u], cur[u]) > _MIN_EXIT_SIZE_USD * 100}}

\* Where a poll cycle can raise: nowhere, in the first get_market call
\* (HTTP error), or in _persist_whale_positions (database error).
PollFailures == {"none", "get_market", "persist"}

\* What the Data API does with the request for an account's positions.
FetchReplies == {"list", "error"}

\* PolymarketClient.get_positions: the list the Data API returns, and the
\* empty list when the request fails.
get_positions(reply, held) == IF reply = "error" THEN NoWhalePositions ELSE held

\* CopyTrader.evaluate for the tracked account: _process_wallet fetches the
\* account's positions, detects exits and entries, replaces the cached
\* snapshot and persists it; evaluate drops the account's intents when
\* _process_wallet raises.
Evaluate ==
  /\ \E held \in [MirrorTokens -> WhaleSizes],
        reply \in FetchReplies,
        price \in [MirrorTokens -> {0} \cup Prices],
        fail \in PollFailures :
       LET a == TrackedWallet
           cur == get_positions(reply, held)
           prev == ct.whale_cache
           sells == _detect_whale_exits(db, a, prev, cur, price)
           buys == _detect_whale_entries(a, prev, cur, price)
           raised_early == fail = "get_market" /\ sells \cup buys # {}
           raised_late == fail = "persist"
       IN /\ ct' = IF raised_early THEN ct
                   ELSE IF raised_late THEN [ct EXCEPT !.whale_cache = cur]
                   ELSE [whale_cache |-> cur, whale_positions |-> cur]
          /\ ev' = [op |-> "evaluate",
                    returned |-> IF raised_early \/ raised_late THEN {}
                                 ELSE sells \cup buys,
                    due |-> MirroredExits(db, a, prev, cur, price),
                    raised |-> raised_early \/ raised_late,
                    reply |-> reply]
  /\ UNCHANGED outside_mirror

\* CopyTrader.initialize after a restart: the cache is loaded from the
\* whale_positions table.
InitializeCopyTrader ==
  /\ ct' = [ct EXCEPT !.whale_cache = ct.whale_positions]
  /\ ev' = [op |-> "initialize", returned |-> {}, due |-> {}, raised |-> FALSE]
  /\ UNCHANGED outside_mirror

\* Engine positions the mirror strategy may find: none, one that mirrors
\* the tracked account on y1 (0.80 x $50, or 0.40 x $20), one that mirrors
\* another account on y1, or one on each token.
MirrorEntry(t, price, size, a) ==
  [CopySignal(t) EXCEPT !.price = price, !.size = size, !.source_wallet = a]
MirrorDbs ==
  {EmptyDb,
   open_position(EmptyDb, MirrorEntry("y1", 80, 50, "w1")),
   open_position(EmptyDb, MirrorEntry("y1", 40, 20, "w1")),
   open_position(EmptyDb, MirrorEntry("y1", 80, 50, "w2")),
   open_position(open_position(EmptyDb, MirrorEntry("y1", 80, 50, "w1")),
                 MirrorEntry("y2", 80, 50, "w1"))}

\* The engine with its mirror positions, the copy trader initialized from a
\* whale_positions table that holds the account's last snapshot.
MirrorInit ==
  /\ kill_switch_active = FALSE
  /\ trading_halted = FALSE
  /\ daily_loss_halt = FALSE
  /\ rm_order_manager = FALSE
  /\ om_risk_manager = FALSE
  /\ signal_queue = << >>
  /\ worker = IdleWorker
  /\ db \in MirrorDbs
  /\ closing_positions = {}
  /\ exits = {}
  /\ emits = 0
  /\ ev = EvNone
  /\ LimiterInit
  /\ StreamStart
  /\ GammaStart
  /\ StrategyStart
  /\ \E snapshot \in [MirrorTokens -> {0, 1000}] :
       ct = [whale_cache |-> snapshot, whale_positions |-> snapshot]

MirrorNext ==
  \/ Evaluate
  \/ InitializeCopyTrader

MirrorSpec == MirrorInit /\ [][MirrorNext]_vars

\* ------------------------------------------- position manager on its own
\* Prices of the feed that reach every branch of the exit rules for a BUY
\* entered at 0.40 and a SELL entered at 0.50.
LadderPrices == {10, 19, 20, 30, 45, 60, 65, 70, 80}

\* One open position of either side, as Database.open_position writes it.
HeldPosition(side, price) ==
  [Signal("copy_trader", "m1", "y1", side, price, 20, "GTC") EXCEPT
     !.yes_token_id = "y1", !.source_wallet = "w1"]
PositionDbs ==
  {open_position(EmptyDb, HeldPosition("BUY", 40)),
   open_position(EmptyDb, HeldPosition("SELL", 50))}

PositionInit ==
  /\ kill_switch_active = FALSE
  /\ trading_halted = FALSE
  /\ daily_loss_halt = FALSE
  /\ rm_order_manager = FALSE
  /\ om_risk_manager = FALSE
  /\ signal_queue = << >>
  /\ worker = IdleWorker
  /\ db \in PositionDbs
  /\ closing_positions = {}
  /\ exits = {}
  /\ emits = 0
  /\ ev = EvNone
  /\ LimiterInit
  /\ MirrorStart
  /\ StreamStart
  /\ GammaStart
  /\ StrategyStart

\* PositionManager.on_price_update, called with the prices of the ladder.
PriceFeed == on_price_update(LadderPrices)

\* The position manager under the price feed, with the worker that takes
\* its exit intents and the settlement of the exits.
PositionNext ==
  \/ PriceFeed
  \/ Dequeue
  \/ Place
  \/ RetryPlace
  \/ ConfirmClose
  \/ ReleaseClosingGuard

PositionSpec == PositionInit /\ [][PositionNext]_vars

\* ------------------------------------------------------- the trades table
\* Order ids a caller of record_trade may pass.
OrderIds == {"o1", "o2", "o3"}

\* Field values a caller of record_trade may pass.
TradeArgs == {CopySignal("y1"), CopySignal("y2"), ArbLeg1, ArbLeg2}

\* One call of Database.record_trade outside a transaction, with any order
\* id and any field values.
RecordTradeCall ==
  /\ \E order_id \in OrderIds, s \in TradeArgs :
       /\ db' = record_trade(db, order_id, s)
       /\ ev' = [op |-> "record_trade", order_id |-> order_id, args |-> s,
                 existed |-> (\E r \in db.view.trades : r.order_id = order_id),
                 returned |-> record_trade_returns(db, db', order_id)]
  /\ UNCHANGED << outside_engine, kill_switch_active, trading_halted, daily_loss_halt,
                  rm_order_manager, om_risk_manager, signal_queue, worker,
                  closing_positions, exits, emits >>

TradesNext ==
  \/ RecordTradeCall

TradesSpec == Init /\ [][TradesNext]_vars

\* ------------------------------------------------ streaming client, actions
outside_stream == << engine_state, clock, rl, tasks, rl_hist, ct, gamma, strat >>

\* The history of the last step tells the calls of get_latest_price from the
\* other steps of the stream.
StreamStep == [op |-> "stream", token_id |-> "", result |-> 0]

\* A message written to the current connection.
wire(n, msg) ==
  [n EXCEPT !.first_sent = IF @ = NoMessage THEN msg ELSE @,
            !.covered = IF msg.kind = "subscribe" THEN @ \cup msg.tokens ELSE @]

\* _send_subscribe and _send_unsubscribe: return without sending when there is
\* no connection or it is closed; send writes the frame before it suspends.
send_message(w, n, msg) == IF ~is_connected(w) THEN n ELSE wire(n, msg)

\* ensure_future of a send, run by the event loop after the caller.
schedule(w, msg) == [w EXCEPT !.ready = Append(@, msg)]

\* _connect_and_listen creates the heartbeat monitor, which first sleeps
\* for the check interval.
start_heartbeat(w, now) ==
  [w EXCEPT !._heartbeat_task = now + _HEARTBEAT_CHECK_INTERVAL_SEC]

\* _connect_and_listen, websockets.connect has opened the connection: keep
\* the reference, reset the reconnect delay and, when the subscribed-set is
\* not empty, send the subscribe message for it and await the send.
ConnectOpened ==
  /\ wsm.pc = "connecting"
  /\ net.connects < MaxConnects
  /\ LET w1 == [wsm EXCEPT !._ws = net.connects + 1, !.closed = FALSE,
                           !._reconnect_delay = 1]
         n1 == [net EXCEPT !.connects = @ + 1, !.first_sent = NoMessage,
                           !.covered = {}, !.last_in = 0,
                           !.quiet_since = net.now,
                           !.at_connect = wsm._subscribed_tokens]
     IN IF w1._subscribed_tokens # {}
        THEN /\ net' = send_message(w1, n1, [kind |-> "subscribe",
                                              tokens |-> resubscribe_tokens(w1)])
             /\ wsm' = [w1 EXCEPT !.pc = "subscribing"]
        ELSE /\ net' = n1
             /\ wsm' = [start_heartbeat(w1, net.now) EXCEPT !.pc = "listening"]
  /\ ev' = StreamStep
  /\ UNCHANGED outside_stream

\* websockets.connect raises: start() clears the connection and backs off.
ConnectFailed ==
  /\ wsm.pc = "connecting"
  /\ wsm' = [_clear_connection(wsm) EXCEPT !.pc = "backoff"]
  /\ net' = [net EXCEPT !.last_in = 0, !.quiet_since = 0]
  /\ ev' = StreamStep
  /\ UNCHANGED outside_stream

\* WebSocketManager._backoff, after its sleep of _reconnect_delay seconds.
_backoff(w) ==
  [w EXCEPT !._reconnect_delay = Min(@ * 2, _max_reconnect_delay)]

\* _backoff has slept.
BackoffDone ==
  /\ wsm.pc = "backoff"
  /\ wsm' = [_backoff(wsm) EXCEPT !.pc = "connecting"]
  /\ ev' = StreamStep
  /\ UNCHANGED << outside_stream, net >>

\* The send of the subscribe message returns: the heartbeat starts and the
\* read loop begins.
SubscribeSent ==
  /\ wsm.pc = "subscribing"
  /\ ~wsm.closed
  /\ wsm' = [start_heartbeat(wsm, net.now) EXCEPT !.pc = "listening"]
  /\ ev' = StreamStep
  /\ UNCHANGED << outside_stream, net >>

\* The connection closes under the program (the peer, the network).
ConnectionLost ==
  /\ wsm.pc \in {"subscribing", "listening"}
  /\ ~wsm.closed
  /\ wsm' = [wsm EXCEPT !.closed = TRUE]
  /\ ev' = StreamStep
  /\ UNCHANGED << outside_stream, net >>

\* _connect_and_listen leaves the closed connection: the read loop ends or
\* raises, or the awaited send raises; the monitor is cancelled and the
\* connection is cleared, and start() backs off after an exception and
\* reconnects at once after a normal end.
ListenerExit ==
  /\ wsm.pc \in {"subscribing", "listening"}
  /\ wsm.closed
  /\ \E raised \in BOOLEAN :
       /\ wsm.pc = "subscribing" => raised
       /\ wsm' = [_clear_connection(wsm) EXCEPT
                    !._heartbeat_task = 0,
                    !.pc = IF raised THEN "backoff" ELSE "connecting"]
  /\ net' = [net EXCEPT !.last_in = 0, !.quiet_since = 0]
  /\ ev' = StreamStep
  /\ UNCHANGED outside_stream

\* What the stream delivers: book messages with a token and a price (0 for a
\* message without one), and messages of another type.
StreamMessages ==
  [type : {"book"}, token_id : StreamTokens, price : Prices \cup {0}]
    \cup {[type |-> "other", token_id |-> "", price |-> 0]}

\* The read loop takes a message: stamp _last_message_time, then
\* _handle_message with no callback registered.
ReceiveMessage ==
  /\ wsm.pc = "listening"
  /\ ~wsm.closed
  /\ \E m \in StreamMessages :
       LET stored == m.type = "book" /\ m.token_id # "" /\ m.price # 0
       IN /\ wsm' = [wsm EXCEPT
                      !._last_message_time = net.now,
                      !._latest_prices =
                        IF stored THEN [@ EXCEPT ![m.token_id] = m.price] ELSE @]
          /\ net' = [net EXCEPT
                      !.last_in = net.now,
                      !.quiet_since = net.now,
                      !.parsed = IF stored THEN [@ EXCEPT ![m.token_id] = m.price]
                                 ELSE @,
                      !.dropped = IF stored THEN @ \ {m.token_id} ELSE @]
  /\ ev' = StreamStep
  /\ UNCHANGED outside_stream

\* The monitor of an open connection has slept its interval.
heartbeat_due(w, now) ==
  is_connected(w) /\ w._heartbeat_task # 0 /\ now >= w._heartbeat_task

\* Time passes, once the monitor that is due has run.
StreamTick ==
  /\ net.now + _HEARTBEAT_CHECK_INTERVAL_SEC <= MaxNow
  /\ ~heartbeat_due(wsm, net.now)
  /\ net' = [net EXCEPT !.now = @ + _HEARTBEAT_CHECK_INTERVAL_SEC]
  /\ ev' = StreamStep
  /\ UNCHANGED << outside_stream, wsm >>

\* _heartbeat_monitor wakes up: closes the connection after
\* _FORCE_RECONNECT_AFTER_SEC of silence and ends, sleeps again otherwise.
HeartbeatCheck ==
  /\ wsm.pc = "listening"
  /\ heartbeat_due(wsm, net.now)
  /\ wsm' = IF is_silent_for(wsm, net.now, _FORCE_RECONNECT_AFTER_SEC)
            THEN [wsm EXCEPT !.closed = TRUE, !._heartbeat_task = 0]
            ELSE start_heartbeat(wsm, net.now)
  /\ ev' = [StreamStep EXCEPT !.op = "heartbeat"]
  /\ UNCHANGED << outside_stream, net >>

TokenLists == SUBSET StreamTokens \ {{}}

\* WebSocketManager.subscribe.
Subscribe ==
  \E token_ids \in TokenLists :
    LET new_tokens == token_ids \ wsm._subscribed_tokens
        w1 == [wsm EXCEPT !._subscribed_tokens = @ \cup token_ids]
        sends == new_tokens # {} /\ is_connected(wsm)
    IN /\ sends => Len(wsm.ready) < MaxPending
       /\ wsm' = IF sends
                 THEN schedule(w1, [kind |-> "subscribe", tokens |-> new_tokens])
                 ELSE w1
       /\ ev' = StreamStep
       /\ UNCHANGED << outside_stream, net >>

\* WebSocketManager.unsubscribe.
Unsubscribe ==
  \E token_ids \in TokenLists :
    LET w1 == [wsm EXCEPT
                 !._subscribed_tokens = @ \ token_ids,
                 !._latest_prices =
                   [t \in StreamTokens |-> IF t \in token_ids THEN 0 ELSE @[t]]]
    IN /\ is_connected(wsm) => Len(wsm.ready) < MaxPending
       /\ wsm' = IF is_connected(wsm)
                 THEN schedule(w1, [kind |-> "unsubscribe", tokens |-> token_ids])
                 ELSE w1
       /\ net' = [net EXCEPT !.dropped = @ \cup token_ids]
       /\ ev' = StreamStep
       /\ UNCHANGED outside_stream

\* The event loop runs the send that was scheduled first.
RunScheduledSend ==
  /\ wsm.ready # << >>
  /\ net' = send_message(wsm, net, Head(wsm.ready))
  /\ wsm' = [wsm EXCEPT !.ready = Tail(@)]
  /\ ev' = StreamStep
  /\ UNCHANGED outside_stream

\* WebSocketManager.get_latest_price.
GetLatestPrice ==
  \E token_id \in StreamTokens :
    /\ ev' = [op |-> "get_latest_price", token_id |-> token_id,
              result |-> get_latest_price(wsm, net.now, token_id)]
    /\ UNCHANGED << outside_stream, wsm, net >>

\* The connection and the subscriptions: start() with its reconnects, and
\* the tasks that call subscribe and unsubscribe.
StreamNext ==
  \/ ConnectOpened
  \/ ConnectFailed
  \/ BackoffDone
  \/ SubscribeSent
  \/ ConnectionLost
  \/ ListenerExit
  \/ Subscribe
  \/ Unsubscribe
  \/ RunScheduledSend

StreamSpec == Init /\ [][StreamNext]_vars

\* The price feed: start() with its reconnects, the messages, the heartbeat
\* and the clock, and the tasks that call unsubscribe and get_latest_price,
\* after subscribe has been called for every token.
FeedInit ==
  /\ EngineInit
  /\ LimiterInit
  /\ MirrorStart
  /\ wsm = [NewWebSocketManager EXCEPT !._subscribed_tokens = StreamTokens]
  /\ net = NewStream
  /\ GammaStart
  /\ StrategyStart

FeedNext ==
  \/ ConnectOpened
  \/ BackoffDone
  \/ SubscribeSent
  \/ ConnectionLost
  \/ ListenerExit
  \/ ReceiveMessage
  \/ StreamTick
  \/ HeartbeatCheck
  \/ Unsubscribe
  \/ RunScheduledSend
  \/ GetLatestPrice

FeedSpec == FeedInit /\ [][FeedNext]_vars

\* ------------------------------------------------------------------ claims
Live == get_open_positions(db)
Statuses(d) == [i \in 1..Len(d.view.positions) |-> d.view.positions[i].status]

\* C1: every create_and_place_order is preceded, in the handling of the same
\* intent, by an approve_signal call that returned approved.
C1_EverySubmissionApproved == ev.submit => ev.submit_approved

\* C2: while the kill switch is active every approve_signal call returns
\* not approved with the reason that names the kill switch, whatever the
\* other risk state is.
C2_KillSwitchRejectsAll ==
  /\ \A a \in ev.approvals : a.kill => ~a.approved /\ a.names_kill_switch
  /\ kill_switch_active =>
       \A s \in {CopySignal("y1"), CopySignal("y2"), ArbLeg1, ArbLeg2,
                 [CopySignal("y1") EXCEPT !.side = "SELL", !.is_exit = TRUE]},
          usdc1 \in WalletReads, usdc2 \in WalletReads :
         LET v == approve_signal(RiskState, db, s, usdc1, usdc2)
         IN ~v.approved /\ v.reason = "Kill switch active"
\* An execution-time approve call under an active kill switch while trading
\* is paused as well.
C2_Witness ==
  /\ ev.op = "dequeue"
  /\ trading_halted
  /\ \E a \in ev.approvals : a.kill /\ ~a.approved

\* C3: while the kill switch is active no order is submitted to the exchange.
C3_NoSubmissionWhileKilled == ev.submit => ~ev.submit_kill

\* C4: after a restart the in-memory kill-switch flag equals the durable
\* metadata value.
C4_RestartRestoresKillSwitch ==
  ev.op = "restart" => (kill_switch_active <=> db.durable.meta = "1")

\* C5: after activate_kill_switch or deactivate_kill_switch the durable
\* metadata value is "1" exactly when the in-memory flag is true.
C5_FlagMirrorsStore ==
  ev.op \in {"activate_kill_switch", "deactivate_kill_switch"}
    => (kill_switch_active <=> db.durable.meta = "1")

\* C6, as stated: after activate_kill_switch with the order manager wired and
\* intents queued, the queue is empty and cancel_all_orders has been invoked.
C6_ActivateDrainsAndCancels ==
  (ev.op = "activate_kill_switch" /\ rm_order_manager /\ ev.drained > 0)
    => (signal_queue = << >> /\ ev.cancel_all_orders)
\* C6, amended: after activate_kill_switch with the order manager wired the
\* queue is empty, and activate_kill_switch does not invoke cancel_all_orders;
\* cancel_all both empties the queue and invokes cancel_all_orders.
C6_ActivateDrainsCancelAllCancels ==
  /\ (ev.op = "activate_kill_switch" /\ rm_order_manager)
       => (signal_queue = << >> /\ ~ev.cancel_all_orders)
  /\ ev.op = "cancel_all" => (signal_queue = << >> /\ ev.cancel_all_orders)
C6_Witness ==
  /\ ev.op = "activate_kill_switch"
  /\ rm_order_manager
  /\ ev.drained > 0
  /\ signal_queue = << >>

\* C7: at most one live (open or closing) position per market.
C7_OneLivePositionPerMarket ==
  \A i \in Live, j \in Live :
    db.view.positions[i].market_id = db.view.positions[j].market_id => i = j

C9_NoSecondExit == ~ev.second_exit
\* A price update for the token of a position whose full exit is pending.
C9_Witness == ev.op = "on_price_update" /\ ev.skipped

\* C10: when the worker has finished a filled entry BUY, its trade row and
\* its position row are both written or both absent, and no transaction is
\* left open.
C10_TradeAndPositionAtomic ==
  ev.op = "place" =>
    /\ ev.entry_fill => (ev.trade_added <=> ev.position_added)
    /\ db.view = db.durable
    /\ ~db.in_transaction
\* open_position raised after record_trade had written its row.
C10_Witness ==
  /\ ev.entry_fill
  /\ ev.fail = "open_position"
  /\ ~ev.trade_added
  /\ ~ev.position_added

\* C11: a record_trade call leaves every row that was in the trades table as
\* it was, leaves exactly one row for the order id it was given, returns
\* that row's id, and the row holds the call's values only when no row for
\* the order id existed before the call.
C11_RecordTradeIdempotent ==
  [][ev'.op = "record_trade" =>
       LET mine == {r \in db'.view.trades : r.order_id = ev'.order_id}
       IN /\ db.view.trades \subseteq db'.view.trades
          /\ Cardinality(mine) = 1
          /\ \A r \in mine : ev'.returned = r.id
          /\ ~ev'.existed =>
               \A r \in mine : /\ r.strategy = ev'.args.strategy
                                /\ r.market_id = ev'.args.market_id
                                /\ r.token_id = ev'.args.token_id
                                /\ r.side = ev'.args.side
                                /\ r.price = ev'.args.price
                                /\ r.size = ev'.args.size
          /\ db'.durable = db'.view]_vars

\* A second call for an order id, with other field values than the row holds.
C11_Witness ==
  /\ ev.op = "record_trade"
  /\ ev.existed
  /\ \E r \in db.view.trades :
       r.order_id = ev.order_id /\ r.token_id # ev.args.token_id

\* C12: in every time interval of length window_seconds at most max_requests
\* calls of acquire return.
C12_AtMostMaxPerWindow ==
  \A a \in 0..clock :
    Cardinality({i \in DOMAIN rl_hist.returns :
                   rl_hist.returns[i] \in a..(a + window_seconds)}) <= max_requests

\* A caller returns from acquire after it slept for a full window to slide,
\* with max_requests returns within the last window.
C12_Witness ==
  /\ ev.op = "resume" /\ ev.returned
  /\ Len(rl_hist.returns) = max_requests
  /\ \E c \in Callers : tasks[c].pc = "wait"

\* C13: no caller sleeps while it holds the limiter's lock, no caller is
\* kept waiting for the lock, and while one caller sleeps, another that
\* enters the loop with a free slot returns.
C13_NoSleepUnderLock ==
  /\ \A c \in Callers : Sleeping(c) => rl.lock_owner # c
  /\ \A c \in Callers : tasks[c].pc # "blocked"
  /\ (ev.op \in {"acquire", "resume"} /\ ev.sleeper /\ ev.entered
        /\ ev.free_before) => ev.returned

\* One caller sleeps for the window to slide while another, entering the
\* loop with a slot free, has just returned from acquire.
C13_Witness ==
  /\ ev.op \in {"acquire", "resume"} /\ ev.returned /\ ev.sleeper
  /\ \E c \in Callers : tasks[c].pc = "wait"

\* C14: the failure counter goes back to 0 only on a record_success that
\* completes a streak of three with no record_rate_limit between them; a
\* record_rate_limit increments the counter, clears the success streak and
\* sets the backoff to min(2^F, 60) seconds from now, 2 seconds when the
\* counter was 0.
C14_ThrottleHysteresis ==
  [][/\ (rl.consecutive_rate_limits > 0 /\ rl'.consecutive_rate_limits = 0)
          => ev'.op = "record_success"
             /\ rl_hist'.streak >= _CONSECUTIVE_SUCCESS_THRESHOLD
     /\ ev'.op = "record_success"
          => rl'.consecutive_rate_limits \in {0, rl.consecutive_rate_limits}
     /\ ev'.op = "record_rate_limit"
          => LET F == rl.consecutive_rate_limits + 1
             IN /\ rl'.consecutive_rate_limits = F
                /\ rl'.consecutive_successes = 0
                /\ rl'.backoff_until - clock =
                     (IF F >= 6 THEN 60 ELSE 2^F) * TicksPerSecond
                /\ F = 1 => rl'.backoff_until - clock = 2 * TicksPerSecond]_vars

\* The counter has been cleared by a third success in a row, two successes
\* after the last throttle having left it as it was.
C14_Witness ==
  /\ ev.op = "record_success"
  /\ rl.consecutive_rate_limits = 0
  /\ rl.backoff_until > 0
  /\ rl_hist.streak = _CONSECUTIVE_SUCCESS_THRESHOLD

\* Leg 1 of the arbitrage pair has been filled and recorded.
Leg1Succeeded(d) ==
  \E r \in d.view.trades :
    r.strategy = "arb_scanner" /\ r.token_id = ArbLeg2.arb_rollback_token_id

\* C15: when leg 1 of a pair was filled and the worker's handling of leg 2
\* ends without a successful order (the risk check at execution rejects it,
\* the exchange rejects it, or it is not filled), the worker goes on to the
\* compensating SELL before it can take the next intent.
C15_FailedLeg2RolledBack ==
  [][LET risk_rejected == /\ ev'.op = "dequeue"
                          /\ Head(signal_queue).arb_leg = 2
                          /\ worker'.pc = "idle"
         order_failed == /\ ev'.op = "place"
                         /\ worker.signal.arb_leg = 2
                         /\ ev'.fail = "failed"
     IN (Leg1Succeeded(db) /\ (risk_rejected \/ order_failed))
          => worker'.pc = "rollback"]_vars

\* C16: in a poll cycle in which a position of the tracked account is gone
\* from the fetch, the engine holds a matching live position, a price is
\* available and the exit size is above the minimum, evaluate returns
\* exactly one SELL for that engine position.
C16_MirroredExitSold ==
  ev.op = "evaluate" =>
    \A d \in ev.due :
      Cardinality({s \in ev.returned :
                     /\ s.side = "SELL"
                     /\ s.token_id = d.token_id
                     /\ s.matching_position_id = d.id}) = 1

\* A take-profit tier has triggered for position i in the step: its tier
\* counter has changed, or it has gone to closing for take-profit.
TierRaised(i) ==
  db'.view.positions[i].take_profit_triggered
    # db.view.positions[i].take_profit_triggered
TakeProfitClose(i) ==
  /\ db.view.positions[i].status = "open"
  /\ db'.view.positions[i].status = "closing"
  /\ db'.view.positions[i].close_reason = "take_profit"

\* C17: in every step the tier counter of every position stays or grows,
\* and a price update triggers at most one tier for a position: the counter
\* moves to one tier's index, and not together with a take-profit close.
C17_OneTierPerUpdate ==
  [][\A i \in 1..Len(db.view.positions) :
       /\ db'.view.positions[i].take_profit_triggered
            >= db.view.positions[i].take_profit_triggered
       /\ ~(TierRaised(i) /\ TakeProfitClose(i))
       /\ TierRaised(i) =>
            /\ ev'.op = "on_price_update"
            /\ db'.view.positions[i].take_profit_triggered
                 <= Len(get_take_profit_tiers)
            /\ Len(signal_queue') <= Len(signal_queue) + 1]_vars

\* A position whose first tier has triggered in an earlier update goes to
\* closing for take-profit by its second tier, the counter staying at 1.
C17_Witness ==
  /\ ev.op = "on_price_update"
  /\ \E i \in 1..Len(db.view.positions) :
       /\ db.view.positions[i].take_profit_triggered = 1
       /\ db.view.positions[i].status = "closing"
       /\ db.view.positions[i].close_reason = "take_profit"

\* C18: in every step the trailing-stop price of a position that has one
\* stays or rises for a BUY position and stays or falls for a SELL position.
C18_TrailingRatchet ==
  [][\A i \in 1..Len(db.view.positions) :
       LET old == db.view.positions[i].trailing_stop_price
           new == db'.view.positions[i].trailing_stop_price
       IN old # 0 =>
            /\ db.view.positions[i].side = "BUY" => new >= old
            /\ db.view.positions[i].side = "SELL" => new # 0 /\ new <= old]_vars

\* A price update has ratcheted the trailing stop of a SELL position.
C18_Witness ==
  /\ ev.op = "on_price_update" /\ ev.ratcheted
  /\ \E i \in 1..Len(db.view.positions) :
       /\ db.view.positions[i].side = "SELL"
       /\ db.view.positions[i].trailing_stop_price # 0

\* No message has been received on the current connection in the last
\* _STALE_THRESHOLD_SEC seconds: none yet, none since the disconnect, or the
\* last one longer ago.
Silent ==
  net.last_in = 0 \/ net.now - net.last_in > _STALE_THRESHOLD_SEC

\* C19, as stated: get_latest_price(t) returns None for every token whenever
\* no message has been received on the current connection in the last 30
\* seconds, and otherwise the last price parsed for t.
C19_StaleOrLastParsed ==
  \A t \in StreamTokens :
    get_latest_price(wsm, net.now, t) = IF Silent THEN 0 ELSE net.parsed[t]

\* C19, amended: get_latest_price(t) returns None for every token whenever
\* no message has been received on the current connection in the last 30
\* seconds; otherwise it returns the last price parsed for t, and None when
\* unsubscribe has named t since that price was parsed.
C19_StaleOrLastParsedSinceUnsubscribe ==
  \A t \in StreamTokens :
    get_latest_price(wsm, net.now, t) =
      IF Silent \/ t \in net.dropped THEN 0 ELSE net.parsed[t]

\* get_latest_price has returned None for a token with a parsed price that
\* is still in the map, more than 30 seconds after the last message of a
\* connection that is still open.
C19_Witness ==
  /\ ev.op = "get_latest_price"
  /\ ev.result = 0
  /\ wsm._latest_prices[ev.token_id] # 0
  /\ is_connected(wsm)
  /\ net.last_in # 0

\* C20: while a connection is open, the first message sent on it is the
\* subscribe message for the subscribed-set as it was when the connection
\* opened, tokens added while disconnected included; and every token of the
\* subscribed-set is named by a subscribe message that has been sent on the
\* connection or is scheduled to be sent on it.
C20_ResubscribeFirst ==
  wsm._ws # 0 =>
    /\ net.at_connect # {} =>
          net.first_sent = [kind |-> "subscribe", tokens |-> net.at_connect]
    /\ net.first_sent.kind = "unsubscribe" => net.at_connect = {}
    /\ is_connected(wsm) =>
          \A t \in wsm._subscribed_tokens :
            \/ t \in net.covered
            \/ \E i \in 1..Len(wsm.ready) :
                 /\ wsm.ready[i].kind = "subscribe"
                 /\ t \in wsm.ready[i].tokens

\* On a reconnect, an unsubscribe scheduled on the connection before is
\* still to run, and the subscribe message for the whole subscribed-set,
\* which holds a token added while disconnected, has gone out first.
C20_Witness ==
  /\ net.connects = MaxConnects
  /\ wsm._ws # 0
  /\ net.first_sent.kind = "subscribe"
  /\ net.first_sent.tokens = StreamTokens
  /\ wsm.ready # << >>
  /\ wsm.ready[1].kind = "unsubscribe"

\* The checks of the risk gate in the order the specification lists them,
\* each stated on its own: whether check k fails for the intent s with the
\* flags rs, the store d and the wallet reads usdc1 (portfolio value) and
\* usdc2 (cash reserve).  Amounts are in 1/10000 dollar.
RiskCheckFails(k, rs, d, s, usdc1, usdc2) ==
  LET pv == get_portfolio_value(d, usdc1)
      daily == get_today_realized_pnl(d) + get_total_unrealized_pnl(d)
      notional == s.size * 10000
      alloc == get_strategy_allocation(s.strategy)
  IN CASE k = 1 -> rs.kill_switch_active
       [] k = 2 -> rs.trading_halted
       [] k = 3 -> rs.daily_loss_halt
       [] k = 4 -> pv <= 0
       [] k = 5 -> daily < 0 /\ (0 - daily) * 100 >= daily_loss_limit_pct * pv
       [] k = 6 -> Cardinality({i \in 1..Len(d.view.positions) :
                     d.view.positions[i].status \in {"open", "closing"}})
                     >= max_open_positions
       [] k = 7 -> ~s.is_exit /\ \E i \in 1..Len(d.view.positions) :
                     /\ d.view.positions[i].status \in {"open", "closing"}
                     /\ d.view.positions[i].market_id = s.market_id
       [] k = 8 -> notional * 100 > max_position_pct * pv
       [] k = 9 -> s.size < min_position_size_usd
       [] k = 10 -> alloc > 0 /\ (get_strategy_exposure(d, s.strategy) + notional)
                                   * 100 > alloc * pv
       [] k = 11 -> \/ usdc2 = WalletError
                    \/ (usdc2 * 10000 - notional) * 100 < min_cash_reserve_pct * pv
       [] k = 12 -> s.edge_pct # -1 /\ s.edge_pct < min_edge_pct

\* The reason each check gives, up to the figures that follow it.
RiskCheckReason(k, usdc2) ==
  CASE k = 1 -> "Kill switch active"
    [] k = 2 -> "Trading halted"
    [] k = 3 -> "Daily loss limit reached"
    [] k = 4 -> "Portfolio value is 0 or unknown"
    [] k = 5 -> "Daily loss limit"
    [] k = 6 -> "Max open positions reached"
    [] k = 7 -> "Market already has position"
    [] k = 8 -> "Position size too large"
    [] k = 9 -> "Position below min size"
    [] k = 10 -> "Strategy allocation exceeded"
    [] k = 11 -> IF usdc2 = WalletError THEN "Balance check failed (fail-closed)"
                 ELSE "Cash reserve"
    [] k = 12 -> "Edge too low"

FailingChecks(e) ==
  {k \in 1..12 : RiskCheckFails(k, e.before, db, e.signal, e.usdc1, e.usdc2)}

ExitPathNext ==
  \/ PriceFeed
  \/ Dequeue
  \/ Place
  \/ RetryPlace

\* process_signals is a task that runs for the life of the bot: an intent in
\* the queue is taken, and an order the worker is on is placed or retried.
ExitPathSpec ==
  /\ PositionInit
  /\ [][ExitPathNext]_vars
  /\ WF_vars(Dequeue)
  /\ WF_vars(Place)
  /\ WF_vars(RetryPlace)

\* The exit order of position 1 has been filled.
ExitFilled == \E e \in exits : e.id = 1 /\ e.filled

\* C22: once the full-exit order of a position is filled, the position
\* eventually is closed with the realized P&L of the intent and is out of
\* _closing_positions.
C22_FilledExitCloses ==
  ExitFilled ~>
    /\ db.view.positions[1].status = "closed"
    /\ 1 \notin closing_positions
    /\ \E e \in exits : e.id = 1 /\ db.view.positions[1].realized_pnl = e.pnl

\* What on_price_update would leave behind in the current state for this
\* token and price: the store, the queue and the closing guard.
after_price_update(token_id, price) ==
  price_loop([db |-> db, queue |-> signal_queue, closing |-> closing_positions,
              exits |-> exits, second |-> FALSE, skipped |-> FALSE,
              ratcheted |-> FALSE],
             db.view.positions, get_open_positions(db), token_id, price)

\* The queue q holds a full-exit intent for position id.
ExitQueued(q, id) ==
  \E k \in 1..Len(q) : q[k].has_pnl /\ q[k].position_id = id

\* C23: when the closing guard of a position has been released after its
\* exit order was given up, a price update that meets the stop loss of the
\* position submits a new exit intent for it.
C23_ReleasedExitResubmits ==
  ev.op = "release_closing_guard" =>
    \A i \in get_open_positions(db) :
      LET row == db.view.positions[i]
      IN i \notin closing_positions /\ ~InFlight(i) =>
           \A price \in LadderPrices :
             PnlAtMost(row.side, row.entry_price, price, 0 - stop_loss_pct) =>
               ExitQueued(after_price_update(row.token_id, price).queue, i)

\* C24: a step that marks a position closing, or adds it to
\* _closing_positions, leaves a full-exit intent for it in the queue.
C24_ClosingMeansQueued ==
  [][\A i \in 1..Len(db'.view.positions) :
       (\/ i \in closing_positions' \ closing_positions
        \/ /\ db'.view.positions[i].status = "closing"
           /\ i \in 1..Len(db.view.positions)
           /\ db.view.positions[i].status # "closing")
       => ExitQueued(signal_queue', i)]_vars

\* -------------------------------------- the copy trader's evaluation loop
\* The Signal that _detect_whale_exits and _detect_whale_entries build for a
\* detected change: strategy, market, token, side, price, size in dollars
\* and the configured order type; the metadata names the source wallet and,
\* for a SELL, the matching position, and carries no is_exit key.
mirror_signal(x) ==
  [Signal(x.strategy, x.market_id, x.token_id, x.side, x.price,
          x.size_cents \div 100, "GTC")
     EXCEPT !.source_wallet = x.source_wallet]

\* The order of the list evaluate returns: the SELLs of _detect_whale_exits
\* before the BUYs of _detect_whale_entries, each in the order of the tokens.
emitted_before(x, y) ==
  IF x.side # y.side THEN x.side = "SELL"
  ELSE x.token_id = y.token_id \/ x.token_id = "y1"

RECURSIVE emit_all(_, _, _, _)
\* The loop of _evaluation_loop over the list: emit_signal for each intent
\* in turn.  st carries the daily-loss flag, the queue and the calls made.
emit_all(st, intents, usdc1, usdc2) ==
  IF intents = {} THEN st
  ELSE LET x == CHOOSE i \in intents : \A j \in intents : emitted_before(i, j)
           s == mirror_signal(x)
           v == approve_signal([RiskState EXCEPT !.daily_loss_halt = st.halt],
                               db, s, usdc1, usdc2)
       IN emit_all([halt |-> v.daily_loss_halt,
                    queue |-> IF v.approved
                              THEN submit_signal(st.queue, [s EXCEPT !.approved = TRUE])
                              ELSE st.queue,
                    calls |-> st.calls \cup {[intent |-> x, verdict |-> v]}],
                   intents \ {x}, usdc1, usdc2)

\* One pass of BaseStrategy._evaluation_loop for the copy trader: evaluate,
\* then emit_signal for every intent it returned.
EvaluationCycle ==
  /\ \E held \in [MirrorTokens -> WhaleSizes],
        reply \in FetchReplies,
        price \in [MirrorTokens -> {0} \cup Prices],
        fail \in PollFailures,
        usdc1 \in WalletReads, usdc2 \in WalletReads :
       LET a == TrackedWallet
           cur == get_positions(reply, held)
           prev == ct.whale_cache
           sells == _detect_whale_exits(db, a, prev, cur, price)
           buys == _detect_whale_entries(a, prev, cur, price)
           raised_early == fail = "get_market" /\ sells \cup buys # {}
           raised_late == fail = "persist"
           returned == IF raised_early \/ raised_late THEN {} ELSE sells \cup buys
           st == emit_all([halt |-> daily_loss_halt, queue |-> signal_queue,
                           calls |-> {}],
                          returned, usdc1, usdc2)
       IN /\ ct' = IF raised_early THEN ct
                   ELSE IF raised_late THEN [ct EXCEPT !.whale_cache = cur]
                   ELSE [whale_cache |-> cur, whale_positions |-> cur]
          /\ daily_loss_halt' = st.halt
          /\ signal_queue' = st.queue
          /\ ev' = [op |-> "evaluation_cycle", calls |-> st.calls]
  /\ UNCHANGED << kill_switch_active, trading_halted, rm_order_manager,
                  om_risk_manager, worker, db, closing_positions, exits, emits,
                  clock, rl, tasks, rl_hist, wsm, net, gamma, strat >>

\* The copy trader's loop over the engine's mirror positions, and restarts.
MirrorLoopNext ==
  \/ EvaluationCycle
  \/ InitializeCopyTrader

MirrorLoopSpec == MirrorInit /\ [][MirrorLoopNext]_vars

\* C25: the risk gate never answers a SELL intent of the mirror strategy
\* with the one-position-per-market rejection.
C25_MirrorSellPassesMarketCheck ==
  ev.op = "evaluation_cycle" =>
    \A c \in ev.calls :
      c.intent.side = "SELL" => c.verdict.reason # "Market already has position"

\* C26: a step in which the exchange fills an order of the worker, at the
\* first attempt, on a retry or for a rollback, and in which no recording
\* call raises, adds a row to the trades table.
C26_FilledOrderRecorded ==
  [][(ev'.op \in {"place", "retry", "rollback"} /\ ev'.fail = "none")
       => db'.durable.trades # db.durable.trades]_vars

\* C27: no retry of an exit intent is sent to the exchange at a moment when
\* approve_signal rejects every intent, that is while the kill switch is
\* active or trading is paused.
C27_RetryRechecksRisk ==
  [][ev'.op = "retry" => ~kill_switch_active /\ ~trading_halted]_vars

\* C28: the retry loop of a failed exit intent sleeps 2^n seconds before
\* retry n, for n from 1 to 3 at most; a retry that is filled, or the third
\* retry, ends the loop, any other goes on to the next retry of the same
\* intent; the loop always ends, and the worker then takes the next intent
\* of the queue.
C28_RetryLoopBoundedAndEnds ==
  /\ [](worker.pc = "retry_sleep" =>
          /\ worker.retry_count \in 1..3
          /\ worker.backoff = 2 ^ worker.retry_count)
  /\ [][ev'.op = "retry" =>
          /\ worker.pc = "retry_sleep"
          /\ IF ev'.fail = "none" \/ worker.retry_count = 3
             THEN worker' = IdleWorker
             ELSE /\ worker'.pc = "retry_sleep"
                  /\ worker'.signal = worker.signal
                  /\ worker'.retry_count = worker.retry_count + 1]_vars
  /\ (worker.pc = "retry_sleep" ~> worker.pc = "idle")
  /\ ((worker.pc = "retry_sleep" /\ signal_queue # << >>) ~> worker.pc = "acquire")

\* The third retry of an exit intent has failed and the worker is idle
\* again, with an intent waiting in the queue.
C28_Witness ==
  /\ ev.op = "retry"
  /\ ev.fail = "failed"
  /\ worker = IdleWorker
  /\ signal_queue # << >>

\* C29: the worker places a compensating SELL only when leg 1 of the pair
\* was filled.
C29_RollbackOnlyAfterLeg1Fill ==
  [][ev'.op = "rollback" => Leg1Succeeded(db)]_vars

\* size is what _convert_usd_to_shares(usd, price) returns, usd / price,
\* with the price in cents and the division cross-multiplied.
IsShareCount(size, usd, price) == price > 0 /\ size * price = usd * 100

\* C30: the position a filled BUY entry opens has the share count sent to
\* the exchange, notional / price, as its size.
C30_PositionSizeInShares ==
  [][(ev'.op = "place" /\ ev'.entry_fill /\ ev'.position_added) =>
       LET row == db'.view.positions[Len(db'.view.positions)]
       IN IsShareCount(row.size, worker.signal.size, worker.signal.price)]_vars

\* C31: on_price_update leaves every row that is not open as it is, and a
\* row it moves from open to closing keeps the size, the tier counter and
\* the trailing-stop price it had when it was moved.
C31_OnlyOpenMutated ==
  [][ev'.op = "on_price_update" =>
       \A i \in 1..Len(db.view.positions) :
         LET old == db.view.positions[i]
             new == db'.view.positions[i]
         IN /\ old.status # "open" => new = old
            /\ (old.status = "open" /\ new.status = "closing") =>
                 /\ new.size = old.size
                 /\ new.take_profit_triggered = old.take_profit_triggered
                 /\ new.trailing_stop_price = old.trailing_stop_price]_vars

\* ------------------------------------------- the market resolution poll
\* The exchange resolves a market: from then on the Gamma API reports it
\* resolved, with the winning outcome as a label or as a token id.
ResolveMarket ==
  /\ \E m \in Markets,
        outcome \in {"yes", "no"} \cup Tokens :
       /\ gamma[m] = ""
       /\ outcome \in Tokens => MarketOf(outcome) = m
       /\ gamma' = [gamma EXCEPT ![m] = outcome]
  /\ ev' = Ev("resolve_market")
  /\ UNCHANGED << engine_state, clock, rl, tasks, rl_hist, ct, wsm, net, strat >>

\* What get_market can do for one market: raise on an HTTP error, return
\* None on a 404, or return the Market.
MarketReplies == {"error", "missing", "market"}

\* Market is a dataclass (client.py:25-44): it has the attribute resolved
\* and no method get.
MarketHasGet == FALSE

\* The orders in which the loop can visit a set of market ids.
RECURSIVE Orderings(_)
Orderings(S) ==
  IF S = {} THEN {<< >>}
  ELSE UNION {{<< m >> \o rest : rest \in Orderings(S \ {m})} : m \in S}

RECURSIVE poll_markets(_, _, _)
\* The for loop of _market_resolution_loop over the market ids, in the order
\* seq, with the replies of get_market: an exception of get_market, or of
\* market.get on a resolved Market, ends the pass; st carries the store and
\* the closing guard.
poll_markets(st, seq, reply) ==
  IF seq = << >> THEN st
  ELSE
    LET m == Head(seq)
        ids == {i \in get_open_positions(st.db) :
                  st.db.view.positions[i].market_id = m}
    IN IF reply[m] = "error" THEN [st EXCEPT !.raised = TRUE]
       ELSE IF reply[m] = "missing" \/ gamma[m] = ""
         THEN poll_markets(st, Tail(seq), reply)
       ELSE IF ~MarketHasGet THEN [st EXCEPT !.raised = TRUE]
       ELSE poll_markets(
              [st EXCEPT
                 !.db = resolution_loop(@, st.db.view.positions, ids, gamma[m]),
                 !.closing = @ \ ids],
              Tail(seq), reply)

\* One pass of TradingBot._market_resolution_loop: the markets of the live
\* positions are fetched one by one; the pass ends at the first exception,
\* which the loop logs before it sleeps.
MarketResolutionPoll ==
  /\ LET market_ids == {db.view.positions[i].market_id :
                          i \in get_open_positions(db)}
     IN \E seq \in Orderings(market_ids), reply \in [Markets -> MarketReplies] :
          LET st == poll_markets([db |-> db, closing |-> closing_positions,
                                  raised |-> FALSE], seq, reply)
          IN /\ db' = st.db
             /\ closing_positions' = st.closing
             /\ ev' = [Ev("resolution_poll") EXCEPT
                         !.fail = IF st.raised THEN "raised" ELSE "none"]
  /\ UNCHANGED << outside_engine, kill_switch_active, trading_halted,
                  daily_loss_halt, rm_order_manager, om_risk_manager,
                  signal_queue, worker, exits, emits >>

\* The position manager under the price feed, with the exchange resolving
\* markets and the resolution poll.
ResolutionNext ==
  \/ PriceFeed
  \/ ResolveMarket
  \/ MarketResolutionPoll

\* The resolution loop is a task that runs until shutdown and polls every
\* 300 seconds.
ResolutionSpec ==
  /\ PositionInit
  /\ [][ResolutionNext]_vars
  /\ WF_vars(MarketResolutionPoll)

\* C32: when the market of live position 1 is resolved on the exchange, the
\* position eventually is closed.
C32_ResolvedMarketSettled ==
  (gamma["m1"] # "" /\ db.view.positions[1].status \in {"open", "closing"})
    ~> (db.view.positions[1].status = "closed")

\* The token that wins market m when the outcome is given as a token id or
\* as the label yes or no.
YesToken(m) == IF m = "m1" THEN "y1" ELSE "y2"
NoToken(m) == IF m = "m1" THEN "n1" ELSE "n2"
WinningToken(m, outcome) ==
  IF outcome = "yes" THEN YesToken(m)
  ELSE IF outcome = "no" THEN NoToken(m) ELSE outcome

\* The realized P&L of a row settled at the resolution price res (0 or 100
\* cents), in 1/10000 dollar: gross P&L less the entry fee and, on a gain,
\* the winner fee on the payout.
SettledAt(row, res) ==
  LET gross == calc_gross_pnl(row.side, row.entry_price, res, row.size)
  IN gross - (row.size * row.entry_price * TAKER_FEE_RATE) \div 100
     - (IF gross > 0 THEN (res * row.size * WINNER_FEE_RATE) \div 100 ELSE 0)

\* C33: check_market_resolution(market_id, outcome) closes every live
\* position of the market with reason market_resolved and takes it out of
\* _closing_positions; a long position is settled at 1.0 when it holds the
\* winning token and at 0.0 otherwise, a short one the other way round;
\* the rows of other markets stay as they are.
C33_ResolutionSettlesMarket ==
  [][ev'.op = "check_market_resolution" =>
       \A i \in 1..Len(db.view.positions) :
         LET old == db.view.positions[i]
             new == db'.view.positions[i]
             won == old.token_id = WinningToken(ev'.market_id, ev'.outcome)
             res == IF (old.side = "BUY") = won THEN 100 ELSE 0
         IN IF old.market_id = ev'.market_id /\ old.status \in {"open", "closing"}
            THEN /\ new.status = "closed"
                 /\ new.close_reason = "market_resolved"
                 /\ new.realized_pnl = SettledAt(old, res)
                 /\ i \notin closing_positions'
            ELSE new = old]_vars

\* C34: approve_signal rejects the intent whenever one of its two wallet
\* reads failed.
C34_WalletFailureRejects ==
  (ev.op = "approve_signal" /\ (ev.usdc1 = WalletError \/ ev.usdc2 = WalletError))
    => ~ev.verdict.approved

\* ------------------------------------------- the limiter under throttling
\* Callers of acquire while the worker records 429 responses.
MaxBackoffs == 2

\* record_rate_limit for one of the first 429 responses in a row.
EarlyRateLimit ==
  /\ rl.consecutive_rate_limits < MaxBackoffs
  /\ RecordRateLimit

BackoffNext ==
  \/ AcquireCall
  \/ Resume
  \/ Tick
  \/ EarlyRateLimit

BackoffSpec == AcquireInit /\ [][BackoffNext]_vars

\* C35: once record_rate_limit has set a backoff, no call of acquire returns
\* before backoff_until, whether the caller came after the throttle, was
\* already waiting inside acquire, or slept through an extension.
C35_NoReturnDuringBackoff ==
  (ev.op \in {"acquire", "resume"} /\ ev.returned) => clock >= rl.backoff_until

\* ------------------------------------------------- reconnects, heartbeat
\* A step of start() that leaves a connection or a failed attempt behind.
Disconnect ==
  /\ wsm.pc \in {"connecting", "subscribing", "listening"}
  /\ wsm'.pc \in {"backoff", "connecting"}
  /\ wsm'.pc # wsm.pc

ReconnectDelayRule ==
  /\ wsm'._reconnect_delay \in 1.._max_reconnect_delay
  /\ (wsm.pc = "backoff" /\ wsm'.pc = "connecting")
       => wsm'._reconnect_delay =
            Min(2 * wsm._reconnect_delay, _max_reconnect_delay)
  /\ (wsm._ws = 0 /\ wsm'._ws # 0) => wsm'._reconnect_delay = 1

\* C36: every disconnect is followed by the sleep of _backoff before the
\* next connect attempt; the reconnect delay doubles with each sleep up to
\* 60 s, is 1 s again after a successful connect, and stays within 1..60.
C36_BackoffAfterEveryDisconnect ==
  [][ReconnectDelayRule /\ (Disconnect => wsm'.pc = "backoff")]_vars

\* The seconds for which the current connection has delivered nothing.
Silence == net.now - net.quiet_since

\* C37: the heartbeat monitor closes a connection only after more than
\* _FORCE_RECONNECT_AFTER_SEC seconds without a message on it, a connection
\* that has not delivered any included, and no open connection stays silent
\* for longer than that and one check interval.
C37_HeartbeatClosesSilentOnly ==
  /\ [][(ev'.op = "heartbeat" /\ wsm'.closed)
         => Silence > _FORCE_RECONNECT_AFTER_SEC]_vars
  /\ []((wsm.pc = "listening" /\ is_connected(wsm))
         => Silence <= _FORCE_RECONNECT_AFTER_SEC + _HEARTBEAT_CHECK_INTERVAL_SEC)

\* C38: when the fetch of the tracked account's positions fails, the cycle
\* leaves the account's cached snapshot and its whale_positions rows as they
\* were and returns no intent for the account.
C38_FetchFailureChangesNothing ==
  [][(ev'.op = "evaluate" /\ ev'.reply = "error")
       => (ct' = ct /\ ev'.returned = {})]_vars

\* ------------------------------------------------- strategy runtime
outside_strategy ==
  << engine_state, clock, rl, tasks, rl_hist, ct, wsm, net, gamma >>

StrategyStep(op, task) == [op |-> op, task |-> task, loaded |-> EmptyState]

\* The tasks of _evaluation_loop that have been created and have not ended.
LiveLoops(s) == {i \in 1..MaxLoops : s.loops[i] \in {"ready", "evaluate", "sleep"}}

\* The number the next created task gets, 0 when the bound is reached.
NextLoop(s) ==
  IF \A i \in 1..MaxLoops : s.loops[i] # "none" THEN 0
  ELSE CHOOSE i \in 1..MaxLoops :
         s.loops[i] = "none" /\ \A j \in 1..(i - 1) : s.loops[j] # "none"

\* asyncio.create_task(self._evaluation_loop()).
create_loop(s) ==
  [s EXCEPT !._eval_task = NextLoop(s), !.loops[NextLoop(s)] = "ready"]

TaskDone(s) == s._eval_task = 0 \/ s.loops[s._eval_task] = "done"

\* A resume that spawns a loop whether or not one is alive.
resume_always_spawns(s) == create_loop([s EXCEPT !._running = TRUE])

\* BaseStrategy.resume for an enabled strategy.
resume(s) ==
  LET s1 == [s EXCEPT !._running = TRUE]
  IN IF TaskDone(s1) THEN create_loop(s1) ELSE s1

\* What initialize() and evaluate() may do to the state: nothing, or
\* set_state of one key.
StateUpdates(state) ==
  {state} \cup {set_state(state, StateKeys[i], v) :
                  i \in DOMAIN StateKeys, v \in StateValues}

\* BaseStrategy.start for an enabled strategy: load the saved state, call
\* initialize(), set _running and create the loop.
StartStrategy ==
  /\ strat.phase = "new"
  /\ LET saved == load_strategy_state(strat.row)
         loaded == IF DOMAIN saved # {} THEN saved ELSE strat._state
     IN /\ \E initialized \in StateUpdates(loaded) :
             strat' = create_loop([strat EXCEPT !._state = initialized,
                                                !._running = TRUE,
                                                !.phase = "started"])
        /\ ev' = [StrategyStep("start", 0) EXCEPT !.loaded = loaded]
  /\ UNCHANGED outside_strategy

\* BaseStrategy.stop: clear _running, cancel the loop and wait for it, save
\* the state when it is not empty, call shutdown().
StopStrategy ==
  /\ strat.phase = "started"
  /\ strat' = [strat EXCEPT
                 !._running = FALSE,
                 !.loops = [i \in 1..MaxLoops |->
                              IF i = strat._eval_task /\ @[i] # "none"
                              THEN "done" ELSE @[i]],
                 !.row = IF DOMAIN strat._state # {}
                         THEN save_strategy_state(@, strat._state) ELSE @,
                 !.at_stop = << strat._state >>,
                 !.phase = "stopped"]
  /\ ev' = StrategyStep("stop", 0)
  /\ UNCHANGED outside_strategy

\* The process ends, after stop() or without it, and the bot is started
\* again: a new strategy object on the same store.
NewProcess ==
  /\ strat.phase \in {"started", "stopped"}
  /\ strat' = [NewStrategy EXCEPT !.row = strat.row, !.at_stop = strat.at_stop]
  /\ ev' = StrategyStep("new_process", 0)
  /\ UNCHANGED outside_strategy

\* BaseStrategy.pause.
Pause ==
  /\ strat.phase = "started"
  /\ strat' = [strat EXCEPT !._running = FALSE]
  /\ ev' = StrategyStep("pause", 0)
  /\ UNCHANGED outside_strategy

\* BaseStrategy.resume, called by the operator's resume command.
ResumeStrategy ==
  /\ strat.phase = "started"
  /\ TaskDone(strat) => NextLoop(strat) # 0
  /\ strat' = resume(strat)
  /\ ev' = StrategyStep("resume", 0)
  /\ UNCHANGED outside_strategy

\* _evaluation_loop, from one suspension to the next: a task that starts or
\* wakes from its sleep tests _running and calls evaluate() or ends; a task
\* whose evaluate() has returned, with the state it may have set, has
\* emitted the signals and sleeps.
LoopStep ==
  /\ \E i \in LiveLoops(strat) :
       IF strat.loops[i] \in {"ready", "sleep"}
       THEN /\ strat' = [strat EXCEPT
                           !.loops[i] = IF strat._running THEN "evaluate"
                                        ELSE "done"]
            /\ ev' = StrategyStep(IF strat._running THEN "evaluate"
                                  ELSE "loop_exit", i)
       ELSE /\ \E state \in StateUpdates(strat._state) :
                 strat' = [strat EXCEPT !.loops[i] = "sleep", !._state = state]
            /\ ev' = StrategyStep("cycle_done", i)
  /\ UNCHANGED outside_strategy

StrategyNext ==
  \/ StartStrategy
  \/ StopStrategy
  \/ NewProcess
  \/ Pause
  \/ ResumeStrategy
  \/ LoopStep

\* The event loop runs every task that is ready, and every sleep ends.
StrategySpec == Init /\ [][StrategyNext]_vars /\ WF_vars(LoopStep)

\* C39: on a started strategy, whatever the order of pause() and resume(),
\* at most one evaluation loop task is alive, no evaluate() cycle begins
\* while _running is false, a resume() is followed by a call of evaluate()
\* unless the strategy is paused or stopped again first, and pause() and
\* resume() leave _state as it is.
C39_PauseResumeOneLoop ==
  /\ [](Cardinality(LiveLoops(strat)) <= 1)
  /\ [][ev'.op = "evaluate" => strat._running]_vars
  /\ [][ev'.op \in {"pause", "resume"} => strat'._state = strat._state]_vars
  /\ (ev.op = "resume")
       ~> (ev.op = "evaluate" \/ ~strat._running \/ strat.phase # "started")

\* A cycle of the second loop task: the first ended while the strategy was
\* paused and resume() created another.
C39_Witness ==
  /\ ev.op = "evaluate"
  /\ ev.task = 2
  /\ strat.loops[1] = "done"

====
